---------------------------- MODULE Spec2Model ----------------------------
(***************************************************************************)
(* A model of adminmcp / acp: the policy engine and the two callers that   *)
(* gate on it (the server's shell/execute tool, the CLI's run command),    *)
(* the two one-shot executors, the length-prefixed IPC framing, the IPC    *)
(* server and client, the shell agent with its drain task, the process     *)
(* around the agent, the security validator, the execute_command tool of   *)
(* the MCP server and its IPC client, and the PID file of the adminmcp     *)
(* command line.                                                           *)
(*                                                                         *)
(* Text is modelled by TLA+ strings; a character is a string of length 1.  *)
(* Each component has its own specification (SpecPolicy, SpecExec,         *)
(* SpecIPC, SpecServer, SpecConn, SpecAgent, SpecDrain, SpecMain,          *)
(* SpecSecurity, SpecTool, SpecClient, SpecOverlap, SpecPid); the          *)
(* variables of the other components stay at their initial values.         *)
(***************************************************************************)
EXTENDS Integers, Sequences, FiniteSets, TLC

VARIABLES
    state_mode,   \* StateManager: the persisted CLI mode
    roots,        \* ServerContext.roots
    logs,         \* ServerContext.logs (number of stored entries)
    op,           \* the operation in flight on the policy path and what it did
    ex,           \* the one-shot execution in flight: the executor and its processes
    wire,         \* IPC: bytes written by send_message, not yet in the reader's buffer
    rbuf,         \* IPC: the StreamReader's buffer: bytes delivered and not yet read
    rpc,          \* IPC: where receive_message stands: "header", "body" or "failed"
    rlen,         \* IPC: the length receive_message unpacked from the header
    sent,         \* IPC: the messages handed to send_message, in order
    received,     \* IPC: the messages returned by receive_message, in order
    srv,          \* IPCServer: self.server, the socket file, the last start or stop
    conns,        \* the IPC connections: both byte streams, the read loop, the client
    agent,        \* ShellAgent: pid, master_fd, ipc_server, running
    sys,          \* the operating system around the agent: processes, descriptors
    drain,        \* the agent's output-drain task: where it is suspended, its reads
    proc,         \* the process around the agent: main() of agent_runner or of main
    sec,          \* SecurityValidator: the last validate_command call
    tool,         \* AdminMCPServer: its IPC client and the last call_tool
    mcp,          \* AdminMCPServer's IPC client over the lifetimes of the agent process
    pair,         \* two send_request calls on one IPCClient, as tasks of one event loop
    pidf          \* adminmcp.cli: the PID file, the server processes, the CLI processes

polVars == <<state_mode, roots, logs, op>>
exVars == <<ex>>
ipcVars == <<wire, rbuf, rpc, rlen, sent, received>>

connVars == <<srv, conns>>
agentVars == <<agent, sys, drain>>
mainVars == <<proc>>
secVars == <<sec>>
toolVars == <<tool>>
clientVars == <<mcp>>
overlapVars == <<pair>>
pidVars == <<pidf>>

vars ==
    <<polVars, exVars, ipcVars, connVars, agentVars, mainVars, secVars, toolVars,
      clientVars, overlapVars, pidVars>>

\* what the actions of one component leave alone
notPol ==
    <<exVars, ipcVars, connVars, agentVars, mainVars, secVars, toolVars,
      clientVars, overlapVars, pidVars>>
notEx ==
    <<polVars, ipcVars, connVars, agentVars, mainVars, secVars, toolVars,
      clientVars, overlapVars, pidVars>>
notIpc ==
    <<polVars, exVars, connVars, agentVars, mainVars, secVars, toolVars,
      clientVars, overlapVars, pidVars>>
notConn ==
    <<polVars, exVars, ipcVars, agentVars, mainVars, secVars, toolVars,
      clientVars, overlapVars, pidVars>>
notAgent ==
    <<polVars, exVars, ipcVars, connVars, mainVars, secVars, toolVars,
      clientVars, overlapVars, pidVars>>
notSec ==
    <<polVars, exVars, ipcVars, connVars, agentVars, mainVars, toolVars,
      clientVars, overlapVars, pidVars>>
notClient ==
    <<polVars, exVars, ipcVars, connVars, agentVars, mainVars, secVars, toolVars,
      overlapVars, pidVars>>
notOverlap ==
    <<polVars, exVars, ipcVars, connVars, agentVars, mainVars, secVars, toolVars,
      clientVars, pidVars>>
notPid ==
    <<polVars, exVars, ipcVars, connVars, agentVars, mainVars, secVars, toolVars,
      clientVars, overlapVars>>
\* the steps of main() and of call_tool act on the agent as well
notMain ==
    <<polVars, exVars, ipcVars, connVars, secVars, toolVars,
      clientVars, overlapVars, pidVars>>
notTool ==
    <<polVars, exVars, ipcVars, connVars, mainVars, secVars,
      clientVars, overlapVars, pidVars>>

(***************************************************************************)
(* Text helpers: str.strip, str.lower, the `in` operator, " ".join          *)
(***************************************************************************)

Char(s, i) == SubSeq(s, i, i)

Whitespace == {" ", "\t", "\n", "\r"}

UpperLetters == "ABCDEFGHIJKLMNOPQRSTUVWXYZ"
LowerLetters == "abcdefghijklmnopqrstuvwxyz"

\* the lower-case letter of each upper-case letter
LowerOf ==
    [c \in {Char(UpperLetters, i) : i \in 1..Len(UpperLetters)} |->
        Char(LowerLetters, CHOOSE i \in 1..Len(UpperLetters) : Char(UpperLetters, i) = c)]

LowerChar(c) == IF c \in DOMAIN LowerOf THEN LowerOf[c] ELSE c

\* f applied to every character of s (by halves, to keep the recursion shallow)
RECURSIVE MapChars(_, _)
MapChars(f(_), s) ==
    IF Len(s) = 0 THEN ""
    ELSE IF Len(s) = 1 THEN f(s)
    ELSE LET h == Len(s) \div 2 IN
         MapChars(f, SubSeq(s, 1, h)) \o MapChars(f, SubSeq(s, h + 1, Len(s)))

Lower(s) == MapChars(LowerChar, s)

RECURSIVE LStrip(_)
LStrip(s) ==
    IF s # "" /\ Char(s, 1) \in Whitespace
    THEN LStrip(SubSeq(s, 2, Len(s)))
    ELSE s

RECURSIVE RStrip(_)
RStrip(s) ==
    IF s # "" /\ Char(s, Len(s)) \in Whitespace
    THEN RStrip(SubSeq(s, 1, Len(s) - 1))
    ELSE s

Strip(s) == RStrip(LStrip(s))

\* Python's `t in s` for strings
Contains(s, t) ==
    \E i \in 1..(Len(s) - Len(t) + 1) : SubSeq(s, i, i + Len(t) - 1) = t

RECURSIVE Join(_)
Join(parts) ==
    IF parts = <<>> THEN ""
    ELSE IF Len(parts) = 1 THEN parts[1]
    ELSE parts[1] \o " " \o Join(Tail(parts))

\* An Optional value: None is the empty tuple, a present value v is <<v>>
None == <<>>
Some(v) == <<v>>

\* Python's `s or None` on a string
OrNone(s) == IF s = "" THEN None ELSE Some(s)

(***************************************************************************)
(* PolicyEngine                                                            *)
(***************************************************************************)

denylist == <<"rm -rf /", "mkfs", "shutdown", "reboot", "poweroff">>

review_keywords == <<"userdel", "iptables", "firewall-cmd", "dd if=">>

HasDenied(normalized) ==
    \E i \in 1..Len(denylist) : Contains(normalized, denylist[i])

\* a variant whose loop gives up after the first review keyword
HasReviewFirstOnly(normalized) == Contains(normalized, review_keywords[1])

HasReview(normalized) ==
    \E i \in 1..Len(review_keywords) : Contains(normalized, review_keywords[i])

\* a variant that forgets to lower-case the command line
NormalizeNoLower(command) == Strip(command)

Normalize(command) == Lower(Strip(command))

\* a variant that looks at the review keywords before the denylist
evaluateReviewFirst(command, mode, context) ==
    LET normalized == Lower(Strip(command)) IN
    IF HasReview(normalized) /\ mode = "watch" THEN "ELICIT"
    ELSE IF HasDenied(normalized) THEN "DENY"
    ELSE "EXECUTE"

\* a variant that compares the mode without regard to case
evaluateAnyCaseMode(command, mode, context) ==
    LET normalized == Lower(Strip(command)) IN
    IF HasDenied(normalized) THEN "DENY"
    ELSE IF HasReview(normalized) /\ Lower(mode) = "watch" THEN "ELICIT"
    ELSE "EXECUTE"

evaluate(command, mode, context) ==
    LET normalized == Normalize(command) IN
    IF HasDenied(normalized) THEN "DENY"
    ELSE IF HasReview(normalized) /\ mode = "watch" THEN "ELICIT"
    ELSE "EXECUTE"


(***************************************************************************)
(* The server's shell/execute tool (ToolManager._shell_execute)            *)
(***************************************************************************)

\* bytes.decode("utf-8", errors="ignore"): undecodable bytes are dropped.
\* BadByte stands for a byte that is not valid UTF-8.
BadByte == "\f"

DropBadByte(c) == IF c = BadByte THEN "" ELSE c

DecodeIgnore(bytes) == MapChars(DropBadByte, bytes)

ToolInvocationResult(status, exit_code, stdout, stderr) ==
    [status |-> status, exit_code |-> exit_code, stdout |-> stdout, stderr |-> stderr]

\* the result built after asyncio.TimeoutError
ToolTimeoutResult(stdout_bytes) ==
    ToolInvocationResult("TIMEOUT", 124, OrNone(DecodeIgnore(stdout_bytes)),
                         Some("Command timed out."))

\* the result built after communicate() returned in time
ToolCompletedResult(returncode, stdout_bytes, stderr_bytes) ==
    ToolInvocationResult("EXECUTE", returncode, OrNone(DecodeIgnore(stdout_bytes)),
                         OrNone(DecodeIgnore(stderr_bytes)))

\* What a spawned command did, as the tool sees it
ProcOutcome(timed_out, returncode, out, err) ==
    [timed_out |-> timed_out, returncode |-> returncode, out |-> out, err |-> err]

ToolPolicyMode(call_mode) == IF call_mode = "" THEN "logonly" ELSE call_mode

\* a variant that answers a dry run before it looks at the policy decision
ShellExecuteDryRunFirst(command, call_mode, dry_run, context_roots, outcome) ==
    LET policy == evaluate(command, ToolPolicyMode(call_mode), context_roots) IN
    IF Strip(command) = ""
    THEN [result |-> ToolInvocationResult("DENY", 1, None, Some("Missing command to execute.")),
          decision |-> "NONE", spawns |-> 0]
    ELSE IF dry_run
    THEN [result |-> ToolInvocationResult("EXECUTE", 0, Some("Policy approved"), None),
          decision |-> policy, spawns |-> 0]
    ELSE IF policy # "EXECUTE"
    THEN [result |-> ToolInvocationResult(policy, 1, None, Some("Command denied by policy.")),
          decision |-> policy, spawns |-> 0]
    ELSE [result |-> IF outcome.timed_out
                     THEN ToolTimeoutResult(outcome.out)
                     ELSE ToolCompletedResult(outcome.returncode, outcome.out, outcome.err),
          decision |-> policy, spawns |-> 1]

\* _shell_execute: the result, the policy decision taken (NONE when the handler
\* returned before evaluating) and the number of subprocesses spawned
ShellExecute(command, call_mode, dry_run, context_roots, outcome) ==
    LET policy == evaluate(command, ToolPolicyMode(call_mode), context_roots) IN
    IF Strip(command) = ""
    THEN [result |-> ToolInvocationResult("DENY", 1, None, Some("Missing command to execute.")),
          decision |-> "NONE", spawns |-> 0]
    ELSE IF policy # "EXECUTE"
    THEN [result |-> ToolInvocationResult(policy, 1, None, Some("Command denied by policy.")),
          decision |-> policy, spawns |-> 0]
    ELSE IF dry_run
    THEN [result |-> ToolInvocationResult(policy, 0, Some("Policy approved"), None),
          decision |-> policy, spawns |-> 0]
    ELSE [result |-> IF outcome.timed_out
                     THEN ToolTimeoutResult(outcome.out)
                     ELSE ToolCompletedResult(outcome.returncode, outcome.out, outcome.err),
          decision |-> policy, spawns |-> 1]


(***************************************************************************)
(* The CLI's one-shot executor (CommandExecutor): the entry it builds      *)
(***************************************************************************)

LogEntry(command_line, exit_code, stdout, stderr) ==
    [command_line |-> command_line, exit_code |-> exit_code,
     stdout |-> stdout, stderr |-> stderr]

_build_log_entry(command, exit_code, stdout, stderr) ==
    LogEntry(Join(command), exit_code, OrNone(Strip(stdout)), OrNone(Strip(stderr)))

\* What subprocess.run did: kind is "completed", "notfound" (FileNotFoundError)
\* or "timeout" (TimeoutExpired)
RunOutcome(kind, returncode, out, err) ==
    [kind |-> kind, returncode |-> returncode, out |-> out, err |-> err]

\* a variant without the FileNotFoundError handler's values
RunEntryNotFoundUnhandled(command, timeout, outcome) ==
    IF outcome.kind = "timeout"
    THEN _build_log_entry(command, 124, "",
             "Command timed out after " \o ToString(timeout) \o " seconds.\n")
    ELSE _build_log_entry(command, outcome.returncode, outcome.out, outcome.err)

\* CommandExecutor.run from the outcome of subprocess.run to the entry
RunEntry(command, timeout, outcome) ==
    IF outcome.kind = "notfound"
    THEN _build_log_entry(command, 127, "", "Command not found: " \o command[1] \o "\n")
    ELSE IF outcome.kind = "timeout"
    THEN _build_log_entry(command, 124, "",
             "Command timed out after " \o ToString(timeout) \o " seconds.\n")
    ELSE _build_log_entry(command, outcome.returncode, outcome.out, outcome.err)

(***************************************************************************)
(* The policy path: tools/call on the server, `acp run` on the client      *)
(***************************************************************************)

MaxArgs == 2      \* most words given on a command line
MaxLogs == 1      \* most log entries the server stores

DefaultTimeout == 7200

Tokens == {"", "rm -rf", "/", " Reboot", "iptables", "dd", "IF=x\n"}

Argvs == UNION {[1..n -> Tokens] : n \in 1..MaxArgs}

CliModes == {"logonly", "watch", "dialog"}

ToolModes == CliModes \cup {"", "WATCH"}

RootValues == {"none", "cwd"}

\* what a command spawned by the tool may do
ToolOutcomes == {ProcOutcome(FALSE, 0, "hi\n", ""), ProcOutcome(TRUE, 0, "", "")}

\* what a command run by the CLI may do
LocalOutcomes == {RunOutcome("completed", 0, "hi\n", ""), RunOutcome("notfound", 0, "", "")}

Idle ==
    [kind |-> "idle", command |-> "", mode |-> "", dry_run |-> FALSE,
     decision |-> "NONE", consulted |-> FALSE, blocked |-> FALSE, raised |-> FALSE,
     localRuns |-> 0, spawns |-> 0, result |-> None, entry |-> None]

\* POST /api/v1/tools/call with a shell/execute call, handled by _shell_execute
ToolsCall(command, call_mode, dry_run, outcome) ==
    /\ op.kind = "idle"
    /\ LET r == ShellExecute(command, call_mode, dry_run, roots, outcome) IN
       op' = [Idle EXCEPT !.kind = "tool", !.command = command, !.mode = call_mode,
                          !.dry_run = dry_run, !.decision = r.decision,
                          !.consulted = (r.decision # "NONE"),
                          !.spawns = r.spawns, !.result = Some(r.result)]
    /\ UNCHANGED <<state_mode, roots, logs>>
    /\ UNCHANGED notPol

\* the HTTP calls of one `acp run`: each may fail (server down, network error)
NetOutcomes(mode) ==
    {n \in [roots : BOOLEAN, policy : BOOLEAN, log : BOOLEAN, tool : BOOLEAN] :
        /\ (mode # "watch" => n.policy)
        /\ (mode # "dialog" => n.tool)}

\* a variant that blocks the command when the policy call raises
_policy_allows_execution_fail_closed(command_line, mode, reachable, context_roots) ==
    /\ reachable
    /\ ShellExecute(command_line, mode, TRUE, context_roots,
                    ProcOutcome(FALSE, 0, "", "")).result.status = "EXECUTE"

\* ACPCLI._policy_allows_execution: a dry-run tool call; fails open
_policy_allows_execution(command_line, mode, reachable, context_roots) ==
    IF reachable
    THEN ShellExecute(command_line, mode, TRUE, context_roots,
                      ProcOutcome(FALSE, 0, "", "")).result.status = "EXECUTE"
    ELSE TRUE

\* ACPCLI._handle_command
CliHandleCommand(argv, net, local, remote) ==
    /\ op.kind = "idle"
    /\ logs < MaxLogs
    /\ UNCHANGED notPol
    /\ LET filtered_command == SelectSeq(argv, LAMBDA a : a # "")
           command_line == Join(filtered_command)
           current_mode == state_mode
           new_roots == IF net.roots THEN "cwd" ELSE roots
           consults == current_mode = "watch"
           allowed == _policy_allows_execution(command_line, current_mode,
                                               net.policy, new_roots)
           entry == RunEntry(filtered_command, DefaultTimeout, local)
           call == ShellExecute(command_line, current_mode, FALSE, new_roots, remote)
           base == [Idle EXCEPT !.kind = "cli", !.command = command_line,
                                !.mode = current_mode]
       IN
       IF filtered_command = <<>>
       THEN /\ op' = [base EXCEPT !.raised = TRUE]
            /\ UNCHANGED <<state_mode, roots, logs>>
       ELSE IF consults /\ ~allowed
       THEN /\ op' = [base EXCEPT !.consulted = TRUE, !.blocked = TRUE,
                          !.decision = evaluate(command_line, current_mode, new_roots)]
            /\ roots' = new_roots
            /\ UNCHANGED <<state_mode, logs>>
       ELSE /\ op' = [base EXCEPT
                          !.consulted = (consults /\ net.policy)
                                        \/ (current_mode = "dialog" /\ net.tool),
                          !.decision = IF (consults /\ net.policy)
                                          \/ (current_mode = "dialog" /\ net.tool)
                                       THEN call.decision ELSE "NONE",
                          !.localRuns = 1,
                          !.entry = Some(entry),
                          !.spawns = IF current_mode = "dialog" /\ net.tool
                                     THEN call.spawns ELSE 0,
                          !.result = IF current_mode = "dialog" /\ net.tool
                                     THEN Some(call.result) ELSE None]
            /\ roots' = new_roots
            /\ logs' = IF net.log THEN logs + 1 ELSE logs
            /\ UNCHANGED state_mode

\* ACPCLI._handle_mode_switch -> StateManager.set_mode
SetMode(mode) ==
    /\ op.kind = "idle"
    /\ mode # state_mode
    /\ state_mode' = mode
    /\ UNCHANGED <<roots, logs, op>>
    /\ UNCHANGED notPol

\* the response is delivered / the CLI process exits
Finish ==
    /\ op.kind # "idle"
    /\ op' = Idle
    /\ UNCHANGED <<state_mode, roots, logs>>
    /\ UNCHANGED notPol

PolInit ==
    /\ state_mode = "logonly"
    /\ roots = "none"
    /\ logs = 0
    /\ op = Idle

PolNext ==
    \/ /\ op.kind = "idle"
       /\ \E a \in Argvs, m \in ToolModes, d \in BOOLEAN :
             \E o \in (IF d THEN {ProcOutcome(FALSE, 0, "", "")} ELSE ToolOutcomes) :
                ToolsCall(Join(a), m, d, o)
    \/ /\ op.kind = "idle"
       /\ \E a \in Argvs, n \in NetOutcomes(state_mode), l \in LocalOutcomes :
             \E o \in (IF state_mode = "dialog" /\ n.tool THEN ToolOutcomes
                       ELSE {ProcOutcome(FALSE, 0, "", "")}) :
                CliHandleCommand(a, n, l, o)
    \/ \E m \in CliModes : SetMode(m)
    \/ Finish


(***************************************************************************)
(* The two one-shot executors at the level of processes and pipes:         *)
(* CommandExecutor.run (subprocess.run with a timeout) and the tool's      *)
(* create_subprocess_shell / wait_for(communicate) / kill / communicate.   *)
(* The child may start processes of its own; each either inherited the     *)
(* output pipes (holders) or redirected its output (detached).             *)
(***************************************************************************)

MaxKids == 1      \* most processes of each sort the child starts

ExecArgvs == {<<"echo", "hello">>, <<"sh", "-c", "sleep 60 & wait">>}

Timeouts == {1, DefaultTimeout}

ReturnCodes == {0, 1, 127}

OutChunks == {"hello\n", " \n", "a\fb"}

ErrChunks == {"oops\n"}

ExIdle ==
    [pc |-> "idle", path |-> "none", command |-> <<>>, timeout |-> 0,
     child |-> "none", returncode |-> 0, holders |-> 0, detached |-> 0,
     out |-> "", err |-> "", expired |-> FALSE, timed_out |-> FALSE,
     notfound |-> FALSE, result |-> None]

\* str decoding of subprocess.run(text=True, encoding="utf-8"): strict
Decodable(bytes) == ~Contains(bytes, BadByte)

\* CommandExecutor.run up to the point where subprocess.run blocks. An executable
\* that cannot be found makes subprocess.run raise FileNotFoundError at once.
CliRunStart(command, timeout, found) ==
    /\ ex.pc = "idle"
    /\ ex' = IF found
             THEN [ExIdle EXCEPT !.pc = "waiting", !.path = "cli", !.command = command,
                                 !.timeout = timeout, !.child = "running"]
             ELSE [ExIdle EXCEPT !.pc = "returned", !.path = "cli", !.command = command,
                                 !.timeout = timeout, !.notfound = TRUE,
                                 !.result = Some(RunEntry(command, timeout,
                                                 RunOutcome("notfound", 0, "", "")))]
    /\ UNCHANGED notEx

\* subprocess.run returns: the child exited and both pipes reached end of file
\* before the deadline. Undecodable output raises UnicodeDecodeError.
CliRunCompletes ==
    /\ ex.pc = "waiting" /\ ex.path = "cli"
    /\ ~ex.expired /\ ex.child = "exited" /\ ex.holders = 0
    /\ ex' = IF Decodable(ex.out) /\ Decodable(ex.err)
             THEN [ex EXCEPT !.pc = "returned",
                             !.result = Some(RunEntry(ex.command, ex.timeout,
                                 RunOutcome("completed", ex.returncode, ex.out, ex.err)))]
             ELSE [ex EXCEPT !.pc = "raised"]
    /\ UNCHANGED notEx

\* subprocess.run after the deadline: Popen.kill() on the child, Popen.wait(),
\* TimeoutExpired, which run() turns into the 124 entry
CliRunTimeout ==
    /\ ex.pc = "waiting" /\ ex.path = "cli"
    /\ ex.expired
    /\ ex' = [ex EXCEPT !.pc = "returned", !.timed_out = TRUE,
                        !.child = IF ex.child = "running" THEN "killed" ELSE ex.child,
                        !.result = Some(RunEntry(ex.command, ex.timeout,
                                        RunOutcome("timeout", 0, "", "")))]
    /\ UNCHANGED notEx

\* _shell_execute from create_subprocess_shell on: the child is the shell
ToolSpawn(command, timeout) ==
    /\ ex.pc = "idle"
    /\ ex' = [ExIdle EXCEPT !.pc = "waiting", !.path = "tool", !.command = command,
                            !.timeout = timeout, !.child = "running"]
    /\ UNCHANGED notEx

\* wait_for(process.communicate()) returns in time
ToolCompletes ==
    /\ ex.pc = "waiting" /\ ex.path = "tool"
    /\ ~ex.expired /\ ex.child = "exited" /\ ex.holders = 0
    /\ ex' = [ex EXCEPT !.pc = "returned",
                        !.result = Some(ToolCompletedResult(ex.returncode, ex.out, ex.err))]
    /\ UNCHANGED notEx

\* asyncio.TimeoutError: process.kill(), then communicate() is awaited again.
\* Output the cancelled communicate() had already taken from the pipe is lost.
ToolTimeout(lost) ==
    /\ ex.pc = "waiting" /\ ex.path = "tool"
    /\ ex.expired
    /\ ex' = [ex EXCEPT !.pc = "draining", !.timed_out = TRUE,
                        !.child = IF ex.child = "running" THEN "killed" ELSE ex.child,
                        !.out = IF lost THEN "" ELSE ex.out]
    /\ UNCHANGED notEx

\* the second communicate() returns: both pipes at end of file, the child reaped
ToolDrained ==
    /\ ex.pc = "draining"
    /\ ex.child # "running" /\ ex.holders = 0
    /\ ex' = [ex EXCEPT !.pc = "returned", !.result = Some(ToolTimeoutResult(ex.out))]
    /\ UNCHANGED notEx

\* the child writes to one of its output pipes
ChildWrites ==
    /\ ex.pc = "waiting" /\ ex.child = "running"
    /\ \/ /\ ex.out = ""
          /\ \E chunk \in OutChunks : ex' = [ex EXCEPT !.out = chunk]
       \/ /\ ex.err = ""
          /\ \E chunk \in ErrChunks : ex' = [ex EXCEPT !.err = chunk]
    /\ UNCHANGED notEx

\* the child starts a process of its own
ChildForks ==
    /\ ex.pc = "waiting" /\ ex.child = "running"
    /\ \/ /\ ex.holders < MaxKids
          /\ ex' = [ex EXCEPT !.holders = @ + 1]
       \/ /\ ex.detached < MaxKids
          /\ ex' = [ex EXCEPT !.detached = @ + 1]
    /\ UNCHANGED notEx

\* the child exits by itself
ChildExits ==
    /\ ex.pc = "waiting" /\ ex.child = "running"
    /\ \E rc \in ReturnCodes : ex' = [ex EXCEPT !.child = "exited", !.returncode = rc]
    /\ UNCHANGED notEx

\* a process the child started exits
KidExits ==
    /\ ex.pc \in {"waiting", "draining"}
    /\ \/ /\ ex.holders > 0
          /\ ex' = [ex EXCEPT !.holders = @ - 1]
       \/ /\ ex.detached > 0
          /\ ex' = [ex EXCEPT !.detached = @ - 1]
    /\ UNCHANGED notEx

\* the deadline passes while the executor waits
DeadlineElapses ==
    /\ ex.pc = "waiting" /\ ~ex.expired
    /\ ex' = [ex EXCEPT !.expired = TRUE]
    /\ UNCHANGED notEx

\* the caller has the result (or the exception); the next execution may start
ExecReturn ==
    /\ ex.pc \in {"returned", "raised"}
    /\ ex' = ExIdle
    /\ UNCHANGED notEx

ExInit == ex = ExIdle

ExNext ==
    \/ \E c \in ExecArgvs, t \in Timeouts, f \in BOOLEAN : CliRunStart(c, t, f)
    \/ CliRunCompletes
    \/ CliRunTimeout
    \/ \E c \in ExecArgvs, t \in Timeouts : ToolSpawn(<<Join(c)>>, t)
    \/ ToolCompletes
    \/ \E lost \in BOOLEAN : ToolTimeout(lost)
    \/ ToolDrained
    \/ ChildWrites
    \/ ChildForks
    \/ ChildExits
    \/ KidExits
    \/ DeadlineElapses
    \/ ExecReturn


(***************************************************************************)
(* IPC framing (IPCProtocol): json.dumps / json.loads, utf-8, struct '!I'  *)
(*                                                                         *)
(* A Python value is a record [t, s, items]: t its type, s its text (for a *)
(* str, an int in decimal, a bool) and items its elements (for a list, a   *)
(* tuple, or a dict, whose elements are pairs of a key and a value).       *)
(***************************************************************************)

PyNone == [t |-> "none", s |-> "", items |-> <<>>]
PyStr(s) == [t |-> "str", s |-> s, items |-> <<>>]
PyInt(digits) == [t |-> "int", s |-> digits, items |-> <<>>]
PyBool(b) == [t |-> "bool", s |-> IF b THEN "True" ELSE "False", items |-> <<>>]
PyList(items) == [t |-> "list", s |-> "", items |-> items]
PyTuple(items) == [t |-> "tuple", s |-> "", items |-> items]
PyPair(k, v) == [t |-> "pair", s |-> "", items |-> <<k, v>>]
PyDict(pairs) == [t |-> "dict", s |-> "", items |-> pairs]

\* --- json.dumps with the default separators and ensure_ascii ---

\* a variant that leaves a backslash as it is
EscapeCharKeepsBackslash(c) ==
    IF c = "\"" THEN "\\\""
    ELSE IF c = "\n" THEN "\\n"
    ELSE IF c = "\t" THEN "\\t"
    ELSE c

EscapeChar(c) ==
    IF c = "\"" THEN "\\\""
    ELSE IF c = "\\" THEN "\\\\"
    ELSE IF c = "\n" THEN "\\n"
    ELSE IF c = "\t" THEN "\\t"
    ELSE c

Escape(s) == MapChars(EscapeChar, s)

Quote(s) == "\"" \o Escape(s) \o "\""

\* a dict key as json.dumps writes it: str as is, int, bool and None as their text
DumpsKey(k) ==
    IF k.t = "str" THEN Quote(k.s)
    ELSE IF k.t = "int" THEN Quote(k.s)
    ELSE IF k.t = "bool" THEN Quote(IF k.s = "True" THEN "true" ELSE "false")
    ELSE Quote("null")

RECURSIVE Dumps(_)
RECURSIVE DumpsItems(_)
RECURSIVE DumpsMembers(_)

DumpsItems(items) ==
    IF items = <<>> THEN ""
    ELSE IF Len(items) = 1 THEN Dumps(items[1])
    ELSE Dumps(items[1]) \o ", " \o DumpsItems(Tail(items))

DumpsMembers(pairs) ==
    IF pairs = <<>> THEN ""
    ELSE LET one == DumpsKey(pairs[1].items[1]) \o ": " \o Dumps(pairs[1].items[2]) IN
         IF Len(pairs) = 1 THEN one
         ELSE one \o ", " \o DumpsMembers(Tail(pairs))

Dumps(v) ==
    IF v.t = "str" THEN Quote(v.s)
    ELSE IF v.t = "int" THEN v.s
    ELSE IF v.t = "bool" THEN (IF v.s = "True" THEN "true" ELSE "false")
    ELSE IF v.t = "none" THEN "null"
    ELSE IF v.t \in {"list", "tuple"} THEN "[" \o DumpsItems(v.items) \o "]"
    ELSE "{" \o DumpsMembers(v.items) \o "}"

\* --- json.loads: a recursive-descent parser; a parse is [ok, v, pos] ---

Digits == {"0", "1", "2", "3", "4", "5", "6", "7", "8", "9"}

ParseFail == [ok |-> FALSE, v |-> PyNone, pos |-> 0]
Parsed(v, pos) == [ok |-> TRUE, v |-> v, pos |-> pos]

RECURSIVE SkipWs(_, _)
SkipWs(text, i) ==
    IF i <= Len(text) /\ Char(text, i) \in Whitespace THEN SkipWs(text, i + 1) ELSE i

StartsWith(text, i, word) ==
    i + Len(word) - 1 <= Len(text) /\ SubSeq(text, i, i + Len(word) - 1) = word

\* the body of a string literal from position i on, the opening quote consumed
\* the first position from i on that holds a quote or a backslash (0: none)
NextSpecial(text, i) ==
    LET special(j) == Char(text, j) \in {"\"", "\\"} IN
    IF \E j \in i..Len(text) : special(j)
    THEN CHOOSE j \in i..Len(text) : special(j) /\ \A k \in i..(j - 1) : ~special(k)
    ELSE 0

RECURSIVE ParseStringBody(_, _, _)
ParseStringBody(text, i, acc) ==
    LET j == NextSpecial(text, i) IN
    IF j = 0 THEN ParseFail
    ELSE LET plain == acc \o SubSeq(text, i, j - 1) IN
         IF Char(text, j) = "\"" THEN Parsed(PyStr(plain), j + 1)
         ELSE IF j + 1 > Len(text) THEN ParseFail
         ELSE LET e == Char(text, j + 1) IN
              IF e = "n" THEN ParseStringBody(text, j + 2, plain \o "\n")
              ELSE IF e = "t" THEN ParseStringBody(text, j + 2, plain \o "\t")
              ELSE IF e \in {"\"", "\\", "/"} THEN ParseStringBody(text, j + 2, plain \o e)
              ELSE ParseFail

RECURSIVE ParseDigits(_, _, _)
ParseDigits(text, i, acc) ==
    IF i <= Len(text) /\ Char(text, i) \in Digits
    THEN ParseDigits(text, i + 1, acc \o Char(text, i))
    ELSE Parsed(PyInt(acc), i)

\* Python dict assignment d[k] = v: a key already present keeps its place
DictSet(pairs, k, v) ==
    IF \E j \in 1..Len(pairs) : pairs[j].items[1] = k
    THEN [j \in 1..Len(pairs) |->
            IF pairs[j].items[1] = k THEN PyPair(k, v) ELSE pairs[j]]
    ELSE Append(pairs, PyPair(k, v))

RECURSIVE ParseValue(_, _)
RECURSIVE ParseElements(_, _, _)
RECURSIVE ParseMembers(_, _, _)

\* the elements of an array from position i on, the opening bracket consumed
ParseElements(text, i, acc) ==
    LET r == ParseValue(text, i) IN
    IF ~r.ok THEN ParseFail
    ELSE LET j == SkipWs(text, r.pos) IN
         IF j > Len(text) THEN ParseFail
         ELSE IF Char(text, j) = "," THEN ParseElements(text, j + 1, Append(acc, r.v))
         ELSE IF Char(text, j) = "]" THEN Parsed(PyList(Append(acc, r.v)), j + 1)
         ELSE ParseFail

\* the members of an object from position i on, the opening brace consumed
ParseMembers(text, i, acc) ==
    LET ki == SkipWs(text, i) IN
    IF ki > Len(text) \/ Char(text, ki) # "\"" THEN ParseFail
    ELSE LET k == ParseStringBody(text, ki + 1, "") IN
         IF ~k.ok THEN ParseFail
         ELSE LET ci == SkipWs(text, k.pos) IN
              IF ci > Len(text) \/ Char(text, ci) # ":" THEN ParseFail
              ELSE LET r == ParseValue(text, ci + 1) IN
                   IF ~r.ok THEN ParseFail
                   ELSE LET j == SkipWs(text, r.pos)
                            more == DictSet(acc, k.v, r.v) IN
                        IF j > Len(text) THEN ParseFail
                        ELSE IF Char(text, j) = "," THEN ParseMembers(text, j + 1, more)
                        ELSE IF Char(text, j) = "}" THEN Parsed(PyDict(more), j + 1)
                        ELSE ParseFail

ParseValue(text, i0) ==
    LET i == SkipWs(text, i0) IN
    IF i > Len(text) THEN ParseFail
    ELSE LET c == Char(text, i) IN
         IF c = "\"" THEN ParseStringBody(text, i + 1, "")
         ELSE IF c \in Digits THEN ParseDigits(text, i, "")
         ELSE IF StartsWith(text, i, "true") THEN Parsed(PyBool(TRUE), i + 4)
         ELSE IF StartsWith(text, i, "false") THEN Parsed(PyBool(FALSE), i + 5)
         ELSE IF StartsWith(text, i, "null") THEN Parsed(PyNone, i + 4)
         ELSE IF c = "["
         THEN LET j == SkipWs(text, i + 1) IN
              IF j <= Len(text) /\ Char(text, j) = "]" THEN Parsed(PyList(<<>>), j + 1)
              ELSE ParseElements(text, i + 1, <<>>)
         ELSE IF c = "{"
         THEN LET j == SkipWs(text, i + 1) IN
              IF j <= Len(text) /\ Char(text, j) = "}" THEN Parsed(PyDict(<<>>), j + 1)
              ELSE ParseMembers(text, i + 1, <<>>)
         ELSE ParseFail

\* json.loads: the whole text is one value; anything else is a JSONDecodeError
Loads(text) ==
    LET r == ParseValue(text, 1) IN
    IF r.ok /\ SkipWs(text, r.pos) = Len(text) + 1 THEN r ELSE ParseFail

\* --- str.encode('utf-8') / bytes.decode('utf-8') on what json.dumps emits ---
\* (with ensure_ascii every character of the text is printable ASCII: one byte)

\* the characters of codes 32..95 and of codes 97..126
AsciiLow == " !\"#$%&'()*+,-./0123456789:;<=>?@ABCDEFGHIJKLMNOPQRSTUVWXYZ[\\]^_"
AsciiHigh == "abcdefghijklmnopqrstuvwxyz{|}~"

OrdOf ==
    [c \in {Char(AsciiLow, i) : i \in 1..Len(AsciiLow)}
           \cup {Char(AsciiHigh, i) : i \in 1..Len(AsciiHigh)} |->
        IF \E i \in 1..Len(AsciiLow) : Char(AsciiLow, i) = c
        THEN 31 + (CHOOSE i \in 1..Len(AsciiLow) : Char(AsciiLow, i) = c)
        ELSE 96 + (CHOOSE i \in 1..Len(AsciiHigh) : Char(AsciiHigh, i) = c)]

Chr(b) == IF b <= 95 THEN Char(AsciiLow, b - 31) ELSE Char(AsciiHigh, b - 96)

Utf8Encode(text) == [i \in 1..Len(text) |-> OrdOf[Char(text, i)]]

Utf8Decodable(bytes) ==
    \A i \in 1..Len(bytes) : bytes[i] >= 32 /\ bytes[i] <= 126 /\ bytes[i] # 96

RECURSIVE Utf8Decode(_)
Utf8Decode(bytes) ==
    IF Len(bytes) = 0 THEN ""
    ELSE IF Len(bytes) = 1 THEN Chr(bytes[1])
    ELSE LET h == Len(bytes) \div 2 IN
         Utf8Decode(SubSeq(bytes, 1, h)) \o Utf8Decode(SubSeq(bytes, h + 1, Len(bytes)))

\* --- struct.pack('!I', n) / struct.unpack('!I', b)[0] ---

\* a variant that writes the length least significant byte first ('<I')
PackLittleEndian(n) ==
    <<n % 256, (n \div 256) % 256, (n \div 65536) % 256, (n \div 16777216) % 256>>

Pack(n) ==
    <<(n \div 16777216) % 256, (n \div 65536) % 256, (n \div 256) % 256, n % 256>>

Unpack(b) == b[1] * 16777216 + b[2] * 65536 + b[3] * 256 + b[4]

HeaderSize == 4

\* --- IPCProtocol.send_message / receive_message over one stream ---

MaxFrames == 2    \* most messages sent over the stream
ChunkSize == 3    \* the transport delivers this many bytes, or all it has

RECURSIVE Repeat(_, _)
Repeat(s, n) == IF n = 0 THEN "" ELSE s \o Repeat(s, n - 1)

MsgResize ==
    PyDict(<<PyPair(PyStr("type"), PyStr("resize")),
             PyPair(PyStr("payload"),
                    PyDict(<<PyPair(PyStr("rows"), PyInt("40")),
                             PyPair(PyStr("cols"), PyInt("100"))>>))>>)

MsgMixed ==
    PyDict(<<PyPair(PyStr("status"), PyStr("ok")),
             PyPair(PyStr("l"), PyList(<<PyInt("1"), PyList(<<>>), PyBool(TRUE), PyNone>>)),
             PyPair(PyStr("s"), PyStr("a\"b\\c\n"))>>)

MsgEmpty == PyDict(<<>>)

MsgTuple == PyDict(<<PyPair(PyStr("a"), PyTuple(<<PyInt("1"), PyInt("2")>>))>>)

MsgIntKey == PyDict(<<PyPair(PyInt("1"), PyStr("x")), PyPair(PyStr("1"), PyStr("y"))>>)

MsgLong ==
    PyDict(<<PyPair(PyStr("type"), PyStr("execute_command")),
             PyPair(PyStr("payload"),
                    PyDict(<<PyPair(PyStr("command"), PyStr(Repeat("echo hi; ", 30)))>>))>>)

Messages == {MsgResize, MsgMixed, MsgEmpty, MsgTuple, MsgIntKey, MsgLong}

\* the bytes send_message writes for one message: writer.write(struct.pack('!I',
\* length)); writer.write(data)
\* data = json.dumps(message).encode('utf-8'), for each message of the model
Serialized == [m \in Messages |-> Utf8Encode(Dumps(m))]

Frame(message) ==
    LET data == Serialized[message] IN Pack(Len(data)) \o data

\* send_message: serialise, write the length and the data, drain
SendMessage(message) ==
    /\ rpc # "failed"
    /\ Len(sent) < MaxFrames
    /\ wire' = wire \o Frame(message)
    /\ sent' = Append(sent, message)
    /\ UNCHANGED <<rbuf, rpc, rlen, received>>
    /\ UNCHANGED notIpc

\* the transport hands the next k bytes to the reader, in chunks of any size
Deliver(k) ==
    /\ k >= 1 /\ k <= Len(wire)
    /\ rbuf' = rbuf \o SubSeq(wire, 1, k)
    /\ wire' = SubSeq(wire, k + 1, Len(wire))
    /\ UNCHANGED <<rpc, rlen, sent, received>>
    /\ UNCHANGED notIpc

\* receive_message, first half: readexactly(4) returns and the length is unpacked
ReceiveHeader ==
    /\ rpc = "header"
    /\ Len(rbuf) >= HeaderSize
    /\ rlen' = Unpack(SubSeq(rbuf, 1, HeaderSize))
    /\ rbuf' = SubSeq(rbuf, HeaderSize + 1, Len(rbuf))
    /\ rpc' = "body"
    /\ UNCHANGED <<wire, sent, received>>
    /\ UNCHANGED notIpc

\* receive_message, second half: readexactly(length) returns, the data is decoded
\* and parsed; a decoding or parsing error is raised as IPCError
ReceiveBody ==
    /\ rpc = "body"
    /\ Len(rbuf) >= rlen
    /\ LET data == SubSeq(rbuf, 1, rlen)
           r == IF Utf8Decodable(data) THEN Loads(Utf8Decode(data)) ELSE ParseFail
       IN /\ rbuf' = SubSeq(rbuf, rlen + 1, Len(rbuf))
          /\ IF r.ok
             THEN rpc' = "header" /\ received' = Append(received, r.v)
             ELSE rpc' = "failed" /\ received' = received
    /\ UNCHANGED <<wire, rlen, sent>>
    /\ UNCHANGED notIpc

IpcInit ==
    /\ wire = <<>> /\ rbuf = <<>> /\ rpc = "header" /\ rlen = 0
    /\ sent = <<>> /\ received = <<>>

IpcNext ==
    \/ \E m \in Messages : SendMessage(m)
    \/ \E k \in {ChunkSize, Len(wire)} : Deliver(k)
    \/ ReceiveHeader
    \/ ReceiveBody

(***************************************************************************)
(* The IPC server and client (adminmcp.core.ipc): the socket file, the     *)
(* per-connection read loop, the request handler, serial request/response  *)
(* pairs.  A connection's two directions are byte streams; each side reads  *)
(* frames off its stream with receive_message.                             *)
(***************************************************************************)

MaxConns == 2     \* connections the server accepts
MaxWrites == 2    \* requests or raw fragments a peer writes on one connection
MaxBinds == 5     \* times the server is started

Conns == 1..MaxConns

\* --- the socket file and IPCServer.start / IPCServer.stop ---
\* A server state is [server, live, file, owner, binds]: server is self.server
\* (0: None, n: the n-th asyncio server created), live the asyncio servers that
\* are listening, file what is at socket_path ("absent", "stale": a socket file
\* nobody listens on, "other": a file that is no socket, "bound": the socket of
\* a listening server), owner the asyncio server whose bind created the file.

NoServer == [server |-> 0, live |-> {}, file |-> "absent", owner |-> 0, binds |-> 0]

\* os.path.exists(self.socket_path)
PathExists(s) == s.file # "absent"

\* if os.path.exists(self.socket_path): os.unlink(self.socket_path)
UnlinkIfExists(s) ==
    IF PathExists(s) THEN [s EXCEPT !.file = "absent", !.owner = 0] ELSE s

\* asyncio.start_unix_server: a socket file left at the path is removed, then
\* the path is bound; binding a path that still exists fails (OSError)
BindFails(s) == s.file \in {"other", "bound"}

StartUnixServer(s) ==
    LET n == s.binds + 1 IN
    [s EXCEPT !.server = n, !.live = s.live \cup {n}, !.file = "bound",
              !.owner = n, !.binds = n]

\* a start that binds without removing what is at the path first
IPCServerStartNoUnlink(s) ==
    IF BindFails(s) THEN [state |-> s, raised |-> TRUE]
    ELSE [state |-> StartUnixServer(s), raised |-> FALSE]

\* IPCServer.start: the new state and whether it raised
IPCServerStart(s) ==
    LET cleared == UnlinkIfExists(s) IN
    IF BindFails(cleared) THEN [state |-> cleared, raised |-> TRUE]
    ELSE [state |-> StartUnixServer(cleared), raised |-> FALSE]

\* IPCServer.stop: nothing unless self.server is set; close() on a server that
\* is already closed does nothing; the file at the path is removed if one exists
IPCServerStop(s) ==
    IF s.server = 0 THEN [state |-> s, raised |-> FALSE]
    ELSE [state |-> UnlinkIfExists([s EXCEPT !.live = s.live \ {s.server}]),
          raised |-> FALSE]

\* --- values on the connection ---

\* dict.get(key, default)
DictGet(d, key, default) ==
    IF \E j \in 1..Len(d.items) : d.items[j].items[1] = key
    THEN d.items[CHOOSE j \in 1..Len(d.items) : d.items[j].items[1] = key].items[2]
    ELSE default

\* key in dict
DictHas(d, key) == \E j \in 1..Len(d.items) : d.items[j].items[1] = key

ReqHello == PyDict(<<PyPair(PyStr("type"), PyStr("test")), PyPair(PyStr("data"), PyStr("hello"))>>)

ReqBye ==
    PyDict(<<PyPair(PyStr("type"), PyStr("test")), PyPair(PyStr("data"), PyStr("bye")),
             PyPair(PyStr("id"), PyStr("7"))>>)

\* what callers hand to send_request
Requests == {ReqHello, ReqBye}

\* str(uuid.uuid4())
Uuids == {"u1"}

\* if "id" not in request: request["id"] = str(uuid.uuid4())
WithId(request, uuid) ==
    IF DictHas(request, PyStr("id")) THEN request
    ELSE PyDict(DictSet(request.items, PyStr("id"), PyStr(uuid)))

\* the request handler of the IPC tests: async def handler(request): return
\* {"status": "ok", "echo": request.get("data")}; a request that is no mapping
\* has no get and the handler raises AttributeError
Handler(request) ==
    IF request.t = "dict"
    THEN [raised |-> FALSE, text |-> "",
          value |-> PyDict(<<PyPair(PyStr("status"), PyStr("ok")),
                             PyPair(PyStr("echo"), DictGet(request, PyStr("data"), PyNone))>>)]
    ELSE [raised |-> TRUE, text |-> "'" \o request.t \o "' object has no attribute 'get'",
          value |-> PyNone]

\* response = {"error": str(e), "status": "error"}
ErrorResponse(text) ==
    PyDict(<<PyPair(PyStr("error"), PyStr(text)), PyPair(PyStr("status"), PyStr("error"))>>)

\* a server that lets the handler's exception end the read loop: no response
HandleRequestUncaught(request) ==
    LET h == Handler(request) IN
    IF h.raised THEN [respond |-> FALSE, response |-> PyNone]
    ELSE [respond |-> TRUE, response |-> h.value]

\* a server that answers every request with the same acknowledgement
HandleRequestAck(request) ==
    [respond |-> TRUE, response |-> PyDict(<<PyPair(PyStr("status"), PyStr("ok"))>>)]

\* _handle_client, the try around the handler: its result, or the error response
HandleRequest(request) ==
    LET h == Handler(request) IN
    [respond |-> TRUE, response |-> IF h.raised THEN ErrorResponse(h.text) ELSE h.value]

\* the values that travel on a connection of the model: the requests with their
\* ids, the handler's answers to them, and the payloads of a peer's own making
WireRequests == {WithId(req, uuid) : req \in Requests, uuid \in Uuids}

WireValues ==
    LET given == WireRequests \cup {PyNone, PyList(<<PyInt("1")>>)} IN
    given \cup {HandleRequest(v).response : v \in given}

\* json.dumps(value).encode('utf-8') for each of them
WireData == [v \in WireValues |-> Utf8Encode(Dumps(v))]

\* the bytes of one frame: struct.pack('!I', len(data)) then data
Framed(data) == Pack(Len(data)) \o data

FrameOf(value) == Framed(WireData[value])

\* what a peer that is no IPCClient may write: whole frames whose payload is no
\* mapping or no JSON, or the beginning of a frame
RawNull == FrameOf(PyNone)
RawList == FrameOf(PyList(<<PyInt("1")>>))
RawGarbage == Pack(1) \o Utf8Encode("{")
RawShortHeader == <<0, 0>>
RawShortBody == Pack(5) \o Utf8Encode("{\"a")

RawFragments == {RawNull, RawList, RawGarbage, RawShortHeader, RawShortBody}

\* --- IPCProtocol.receive_message on a stream with buffered bytes buf ---
\* kind "wait": readexactly is still waiting; "none": IncompleteReadError, None is
\* returned; "error": IPCError is raised; "value": the decoded payload v

ReadResult(kind, v, rest) == [kind |-> kind, v |-> v, rest |-> rest]

\* json.loads(data.decode('utf-8')): the payload, or IPCError("Receive failed")
Decode(data) == IF Utf8Decodable(data) THEN Loads(Utf8Decode(data)) ELSE ParseFail

Decoding(r, rest) ==
    IF r.ok THEN ReadResult("value", r.v, rest) ELSE ReadResult("error", PyNone, rest)

\* a short read that is reported as an error unless it falls on a frame boundary
ShortReadRaises(buf, eof) ==
    IF ~eof THEN ReadResult("wait", PyNone, buf)
    ELSE ReadResult(IF Len(buf) = 0 THEN "none" ELSE "error", PyNone, <<>>)

\* readexactly with fewer bytes buffered than asked for: IncompleteReadError once
\* the peer has closed, and None is returned
ShortRead(buf, eof) ==
    IF eof THEN ReadResult("none", PyNone, <<>>) ELSE ReadResult("wait", PyNone, buf)

\* data = await reader.readexactly(length); json.loads(data.decode('utf-8'))
ReadBody(length, body, buf, eof) ==
    IF Len(body) < length THEN ShortRead(buf, eof)
    ELSE Decoding(Decode(SubSeq(body, 1, length)), SubSeq(body, length + 1, Len(body)))

receive_message(buf, eof) ==
    IF Len(buf) < HeaderSize THEN ShortRead(buf, eof)
    ELSE ReadBody(Unpack(SubSeq(buf, 1, HeaderSize)),
                  SubSeq(buf, HeaderSize + 1, Len(buf)), buf, eof)

\* --- what send_request gives its caller: a value, or an exception ---

Returned(value) == [raised |-> FALSE, type |-> "", text |-> "", value |-> value]
Raised(type, text) == [raised |-> TRUE, type |-> type, text |-> text, value |-> PyNone]

\* a client that takes a response only if it carries the id of its request
send_request_result_by_id(request, r) ==
    IF r.kind = "none" THEN Raised("IPCError", "Connection closed by server")
    ELSE IF r.kind = "error" THEN Raised("IPCError", "Receive failed")
    ELSE IF r.v.t # "dict" \/ DictGet(r.v, PyStr("id"), PyNone) # DictGet(request, PyStr("id"), PyNone)
    THEN Raised("IPCError", "Unexpected response")
    ELSE Returned(r.v)

\* send_request after the request is written: receive_message raises IPCError,
\* or returns None ("Connection closed by server"), or returns the response
send_request_result(request, r) ==
    IF r.kind = "error" THEN Raised("IPCError", "Receive failed")
    ELSE IF r.kind = "none" \/ r.v = PyNone
    THEN Raised("IPCError", "Connection closed by server")
    ELSE Returned(r.v)

\* --- connections ---

FreeConn ==
    [up |-> "free", peer |-> "none", cpc |-> "idle", spc |-> "reading",
     c2s |-> <<>>, s2c |-> <<>>, request |-> PyNone, raws |-> 0,
     calls |-> <<>>, returns |-> <<>>, handled |-> <<>>, responses |-> <<>>,
     failed |-> FALSE, lastread |-> "nothing", short |-> 0]

\* frames and fragments written by the peers of all connections
RECURSIVE TotalWrites(_, _)
TotalWrites(cs, n) ==
    IF n = 0 THEN 0 ELSE Len(cs[n].calls) + cs[n].raws + TotalWrites(cs, n - 1)

\* a variant in which the end of one connection ends them all
CloseAllConnections(cs, c, failed, lastread) ==
    [d \in DOMAIN cs |->
        IF cs[d].up = "open"
        THEN [cs[d] EXCEPT !.spc = "closed", !.failed = failed, !.lastread = lastread,
                           !.request = PyNone]
        ELSE cs[d]]

\* _handle_client leaves its loop: finally writer.close(); only this connection
CloseConnection(cs, c, failed, lastread) ==
    [cs EXCEPT ![c].spc = "closed", ![c].failed = failed, ![c].lastread = lastread,
               ![c].request = PyNone]

\* IPCServer.start
ServerStart ==
    /\ srv.s.binds < MaxBinds
    /\ LET r == IPCServerStart(srv.s) IN
       srv' = [s |-> r.state, last |-> "start", raised |-> r.raised,
               unlinked |-> PathExists(srv.s)]
    /\ UNCHANGED conns
    /\ UNCHANGED notConn

\* IPCServer.stop
ServerStop ==
    /\ LET r == IPCServerStop(srv.s) IN
       srv' = [s |-> r.state, last |-> "stop", raised |-> r.raised,
               unlinked |-> srv.s.server # 0 /\ PathExists(srv.s)]
    /\ UNCHANGED conns
    /\ UNCHANGED notConn

\* something else leaves a file at the socket path
FileAppears(kind) ==
    /\ srv.s.file = "absent" /\ srv.s.binds < MaxBinds
    /\ srv' = [srv EXCEPT !.s.file = kind, !.last = "env", !.unlinked = FALSE]
    /\ UNCHANGED conns
    /\ UNCHANGED notConn

\* the process that runs the server ends: its sockets are closed by the system,
\* the socket file stays behind; a process started later builds a new IPCServer
ServerExits ==
    /\ srv.s.live # {}
    /\ srv' = [s |-> [srv.s EXCEPT !.server = 0, !.live = {},
                                   !.file = IF srv.s.file = "bound" THEN "stale"
                                            ELSE srv.s.file,
                                   !.owner = 0],
               last |-> "env", raised |-> FALSE, unlinked |-> FALSE]
    /\ conns' = [c \in Conns |->
                   IF conns[c].up = "open" /\ conns[c].spc # "closed"
                   THEN [conns[c] EXCEPT !.spc = "closed", !.lastread = "exit",
                                         !.request = PyNone]
                   ELSE conns[c]]
    /\ UNCHANGED notConn

\* IPCClient.connect, accepted by the listening server: _handle_client starts
Connect(c) ==
    /\ conns[c].up = "free"
    /\ \A d \in 1..(c - 1) : conns[d].up # "free"
    /\ srv.s.file = "bound" /\ srv.s.owner \in srv.s.live
    /\ conns' = [conns EXCEPT ![c].up = "open"]
    /\ UNCHANGED srv
    /\ UNCHANGED notConn

\* IPCClient.send_request up to the write: the id is added, the frame written.
\* Once the server has closed its side the write may fail (IPCError "Send
\* failed") or seem to succeed.
ClientWrites(c, k, request, sendok) ==
    IF k.spc = "closed" /\ ~sendok
    THEN conns' = [conns EXCEPT ![c].peer = "client",
                                ![c].calls = Append(k.calls, request),
                                ![c].returns = Append(k.returns, Raised("IPCError", "Send failed"))]
    ELSE conns' = [conns EXCEPT ![c].peer = "client", ![c].cpc = "awaiting",
                                ![c].calls = Append(k.calls, request),
                                ![c].c2s = IF k.spc = "closed" THEN k.c2s
                                           ELSE k.c2s \o FrameOf(request)]

ClientSendRequest(c, req, uuid, sendok) ==
    /\ conns[c].up = "open" /\ conns[c].cpc = "idle" /\ conns[c].peer \in {"none", "client"}
    /\ TotalWrites(conns, MaxConns) < MaxWrites
    /\ ClientWrites(c, conns[c], WithId(req, uuid), sendok)
    /\ UNCHANGED srv
    /\ UNCHANGED notConn

\* IPCClient.send_request from the read on: the next frame is the response
ClientReads(c, k, r) ==
    /\ r.kind # "wait"
    /\ conns' = [conns EXCEPT ![c].cpc = "idle", ![c].s2c = r.rest,
                    ![c].returns = Append(k.returns,
                                          send_request_result(k.calls[Len(k.calls)], r))]

ClientReceive(c) ==
    /\ conns[c].up = "open" /\ conns[c].cpc = "awaiting"
    /\ ClientReads(c, conns[c], receive_message(conns[c].s2c, conns[c].spc = "closed"))
    /\ UNCHANGED srv
    /\ UNCHANGED notConn

\* IPCClient.close, or the peer process closing its socket
ClientClose(c) ==
    /\ conns[c].up = "open" /\ conns[c].cpc = "idle"
    /\ conns' = [conns EXCEPT ![c].cpc = "closed"]
    /\ UNCHANGED srv
    /\ UNCHANGED notConn

\* a peer that is no IPCClient writes bytes of its own making
PeerWriteRaw(c, fragment) ==
    /\ conns[c].up = "open" /\ conns[c].cpc = "idle" /\ conns[c].peer \in {"none", "raw"}
    /\ conns[c].spc # "closed"
    /\ TotalWrites(conns, MaxConns) < MaxWrites
    /\ conns' = [conns EXCEPT ![c].peer = "raw", ![c].raws = conns[c].raws + 1,
                              ![c].c2s = conns[c].c2s \o fragment]
    /\ UNCHANGED srv
    /\ UNCHANGED notConn

\* _handle_client: receive_message returns or raises; None ends the loop, an
\* IPCError is logged and ends the loop, anything else goes to the handler
ServerReads(c, k, r) ==
    /\ r.kind # "wait"
    /\ IF r.kind = "error"
       THEN conns' = CloseConnection([conns EXCEPT ![c].c2s = r.rest], c, TRUE, "error")
       ELSE IF r.kind = "none"
       THEN conns' = CloseConnection([conns EXCEPT ![c].c2s = r.rest, ![c].short = Len(k.c2s)],
                                     c, FALSE, "eof")
       ELSE IF r.v = PyNone
       THEN conns' = CloseConnection([conns EXCEPT ![c].c2s = r.rest], c, FALSE, "null")
       ELSE conns' = [conns EXCEPT ![c].spc = "handling", ![c].c2s = r.rest,
                                   ![c].request = r.v, ![c].lastread = "request",
                                   ![c].handled = Append(k.handled, r.v)]

ServerReceive(c) ==
    /\ conns[c].up = "open" /\ conns[c].spc = "reading"
    /\ ServerReads(c, conns[c], receive_message(conns[c].c2s, conns[c].cpc = "closed"))
    /\ UNCHANGED srv
    /\ UNCHANGED notConn

\* _handle_client: the handler returns or raises, the response is written with
\* send_message; once the peer has closed the write may fail (IPCError, the loop
\* ends) or seem to succeed
ServerResponds(c, k, h, sendok) ==
    IF ~h.respond
    THEN conns' = CloseConnection(conns, c, TRUE, "request")
    ELSE IF k.cpc = "closed" /\ ~sendok
    THEN conns' = CloseConnection(conns, c, TRUE, "request")
    ELSE conns' = [conns EXCEPT ![c].spc = "reading", ![c].request = PyNone,
                                ![c].responses = Append(k.responses, h.response),
                                ![c].s2c = IF k.cpc = "closed" THEN k.s2c
                                           ELSE k.s2c \o FrameOf(h.response)]

HandlerReturns(c, sendok) ==
    /\ conns[c].up = "open" /\ conns[c].spc = "handling"
    /\ ServerResponds(c, conns[c], HandleRequest(conns[c].request), sendok)
    /\ UNCHANGED srv
    /\ UNCHANGED notConn

ConnInit ==
    /\ srv = [s |-> NoServer, last |-> "none", raised |-> FALSE, unlinked |-> FALSE]
    /\ conns = [c \in Conns |-> FreeConn]

\* the server's life on its own: starts, stops, exits, and what lands at the path
ServerNext ==
    \/ ServerStart
    \/ ServerStop
    \/ ServerExits
    \/ \E kind \in {"stale", "other"} : FileAppears(kind)

\* the connections of a server that is started once
ConnNext ==
    \/ (srv.s.binds = 0 /\ ServerStart)
    \/ ServerExits
    \/ \E c \in Conns : Connect(c)
    \/ \E c \in Conns, req \in Requests :
          \E uuid \in Uuids,
             sendok \in (IF conns[c].spc = "closed" THEN BOOLEAN ELSE {TRUE}) :
             ClientSendRequest(c, req, uuid, sendok)
    \/ \E c \in Conns : ClientReceive(c)
    \/ \E c \in Conns : ClientClose(c)
    \/ \E c \in Conns, fragment \in RawFragments : PeerWriteRaw(c, fragment)
    \/ \E c \in Conns : ServerReceive(c)
    \/ \E c \in Conns :
          \E sendok \in (IF conns[c].cpc = "closed" THEN BOOLEAN ELSE {TRUE}) :
             HandlerReturns(c, sendok)

(***************************************************************************)
(* The shell agent (adminmcp.core.shell_agent): a shell forked on a        *)
(* pseudo-terminal, the IPC server in front of it, start, stop and the     *)
(* request handler.  sys is the operating system as the agent's calls see   *)
(* it: the child shells alive, the master descriptors open, the socket      *)
(* path, and what the last call did.                                       *)
(***************************************************************************)

MaxForks == 2     \* times pty.fork succeeds

NewAgent ==
    [pid |-> 0, master_fd |-> 0, ipc_server |-> FALSE, running |-> FALSE]

\* what one call on the agent did: the fields of sys that every call sets anew
NoCall ==
    [raised |-> FALSE, hung |-> FALSE, steps |-> <<>>, reaped |-> 0,
     stray_signals |-> 0, stray_closes |-> 0, stray_ioctls |-> 0, stray_writes |-> 0,
     ioctls |-> 0, unlinked |-> FALSE, request |-> PyNone, reply |-> PyNone, wrote |-> ""]

\* children are the child shells not yet reaped, zombies those of them that have
\* exited; geometry is the window size of each open terminal.  last is the last
\* call on the agent, before the agent's history when it was made ("new",
\* "started", "partial": a start that raised, "stopped"); the fields after it
\* are what that call did.
NewSys ==
    [children |-> {}, zombies |-> {}, fds |-> {}, geometry |-> <<>>,
     sock |-> NoServer, forks |-> 0,
     history |-> "new", ever_stopped |-> FALSE, last |-> "none", before |-> "new",
     raised |-> FALSE, hung |-> FALSE, steps |-> <<>>, reaped |-> 0,
     stray_signals |-> 0, stray_closes |-> 0, stray_ioctls |-> 0, stray_writes |-> 0,
     ioctls |-> 0, unlinked |-> FALSE, request |-> PyNone, reply |-> PyNone, wrote |-> ""]

\* the record y with the fields of d in place of its own
Merge(y, d) == [f \in DOMAIN y |-> IF f \in DOMAIN d THEN d[f] ELSE y[f]]

\* pty.fork() in the parent: a new child shell and the master descriptor of its
\* terminal; descriptors are numbered from 3
ForkedPid(y) == 100 + y.forks + 1
ForkedFd(y) == 3 + y.forks

\* the window size of a terminal nobody has resized
UnsetGeometry == <<0, 0>>

\* the geometry map with descriptor fd set to size
WithGeometry(g, fd, size) ==
    [d \in (DOMAIN g) \cup {fd} |-> IF d = fd THEN size ELSE g[d]]

WithoutGeometry(g, fd) == [d \in (DOMAIN g) \ {fd} |-> g[d]]

\* The drain task (_read_shell_output) between two steps of the event loop: pc is
\* "none" (no task), "scheduled" (created, not yet run), "sleeping" (suspended in
\* asyncio.sleep), "reading" (about to call os.read without having suspended) or
\* "done"; last and prev are the outcomes of its last two reads, served whether a
\* request was handled since the last read, between whether one was handled
\* between the last two reads.
NoDrain ==
    [pc |-> "none", last |-> "none", prev |-> "none", served |-> FALSE, between |-> FALSE]

\* the event loop is free for another coroutine to run: no call is blocking it
\* and the drain task is suspended or finished
LoopFree == ~sys.hung /\ drain.pc # "reading"

\* ShellAgent.start.  failure is what the environment refuses: "fork" (pty.fork
\* raises), "bind" (IPCServer.start raises), or "none".
DoStart(failure) ==
    /\ LoopFree
    /\ sys.forks < MaxForks
    /\ IF failure = "fork"
       THEN /\ agent' = agent
            /\ drain' = drain
            /\ sys' = [Merge(sys, NoCall) EXCEPT
                          !.last = "start", !.before = sys.history, !.raised = TRUE,
                          !.history = IF sys.history = "new" THEN "partial"
                                      ELSE sys.history]
       ELSE LET pid == ForkedPid(sys)
                fd == ForkedFd(sys)
                fresh == [sys.sock EXCEPT !.server = 0]
                r == IF failure = "bind"
                     THEN [state |-> UnlinkIfExists(fresh), raised |-> TRUE]
                     ELSE IPCServerStart(fresh)
            IN /\ agent' = [pid |-> pid, master_fd |-> fd, ipc_server |-> TRUE,
                            running |-> TRUE]
               /\ drain' = IF r.raised THEN drain ELSE [NoDrain EXCEPT !.pc = "scheduled"]
               /\ sys' = [Merge(sys, NoCall) EXCEPT
                             !.children = sys.children \cup {pid},
                             !.fds = sys.fds \cup {fd},
                             !.geometry = WithGeometry(sys.geometry, fd, UnsetGeometry),
                             !.forks = sys.forks + 1,
                             !.sock = r.state,
                             !.last = "start", !.before = sys.history,
                             !.raised = r.raised,
                             !.history = IF r.raised THEN "partial" ELSE "started"]

ShellAgentStart(failure) == DoStart(failure) /\ UNCHANGED notAgent

\* the steps of ShellAgent.stop, in the order of the code
StopOrder == <<"ipc_stop", "kill", "waitpid", "close">>

\* a variant of stop that signals the child and does not wait for it
StopSequenceNoReap(a, y, dies, pid_reused, fd_reused) ==
    LET s0 == IF a.ipc_server THEN IPCServerStop(y.sock).state ELSE y.sock
        has_pid == a.pid # 0
        child == a.pid \in y.children
        has_fd == a.master_fd # 0
        open == a.master_fd \in y.fds
    IN [steps |-> (IF a.ipc_server THEN <<"ipc_stop">> ELSE <<>>)
                  \o (IF has_pid THEN <<"kill">> ELSE <<>>)
                  \o (IF has_fd THEN <<"close">> ELSE <<>>),
        sock |-> s0,
        children |-> y.children,
        zombies |-> IF child /\ dies THEN y.zombies \cup {a.pid} ELSE y.zombies,
        fds |-> IF has_fd /\ open THEN y.fds \ {a.master_fd} ELSE y.fds,
        reaped |-> 0,
        hung |-> FALSE,
        stray_kill |-> has_pid /\ ~child /\ pid_reused,
        stray_close |-> has_fd /\ ~open /\ fd_reused,
        raised |-> has_fd /\ ~open /\ ~fd_reused]

\* ShellAgent.stop after self.running = False: what it does to the system.
\* os.kill reaches a child that has not been reaped, alive or not; the child
\* either terminates on SIGTERM (dies) or ignores it, and then os.waitpid(pid, 0)
\* does not return.  A pid that is no longer a child of the agent either names
\* no process (ProcessLookupError, swallowed) or names some other process, which
\* gets the signal, and then waitpid raises ChildProcessError; a descriptor that
\* is already closed either is invalid (OSError) or has been handed out again,
\* and then the close hits its new owner.
StopSequence(a, y, dies, pid_reused, fd_reused) ==
    LET s0 == IF a.ipc_server THEN IPCServerStop(y.sock).state ELSE y.sock
        has_pid == a.pid # 0
        child == a.pid \in y.children
        exits == child /\ (dies \/ a.pid \in y.zombies)
        blocks == child /\ ~exits
        stray_kill == has_pid /\ ~child /\ pid_reused
        waits == has_pid /\ (child \/ stray_kill)
        has_fd == a.master_fd # 0
        open == a.master_fd \in y.fds
        reach_close == has_fd /\ ~stray_kill /\ ~blocks
        stray_close == reach_close /\ ~open /\ fd_reused
        bad_close == reach_close /\ ~open /\ ~fd_reused
    IN [steps |-> (IF a.ipc_server THEN <<"ipc_stop">> ELSE <<>>)
                  \o (IF has_pid THEN <<"kill">> ELSE <<>>)
                  \o (IF waits THEN <<"waitpid">> ELSE <<>>)
                  \o (IF reach_close THEN <<"close">> ELSE <<>>),
        sock |-> s0,
        children |-> IF exits THEN y.children \ {a.pid} ELSE y.children,
        zombies |-> IF exits THEN y.zombies \ {a.pid} ELSE y.zombies,
        fds |-> IF reach_close /\ open THEN y.fds \ {a.master_fd} ELSE y.fds,
        reaped |-> IF exits THEN a.pid ELSE 0,
        hung |-> blocks,
        stray_kill |-> stray_kill,
        stray_close |-> stray_close,
        raised |-> stray_kill \/ bad_close]

\* ShellAgent.stop
DoStop(dies, pid_reused, fd_reused) ==
    LET r == StopSequence(agent, sys, dies, pid_reused, fd_reused) IN
    /\ LoopFree
    /\ agent' = [agent EXCEPT !.running = FALSE]
    /\ drain' = drain
    /\ sys' = [Merge(sys, NoCall) EXCEPT
                  !.sock = r.sock,
                  !.children = r.children,
                  !.zombies = r.zombies,
                  !.fds = r.fds,
                  !.geometry = [d \in r.fds |-> sys.geometry[d]],
                  !.last = "stop", !.before = sys.history,
                  !.history = "stopped", !.ever_stopped = TRUE,
                  !.steps = r.steps, !.reaped = r.reaped,
                  !.hung = r.hung, !.raised = r.raised,
                  !.stray_signals = IF r.stray_kill THEN 1 ELSE 0,
                  !.stray_closes = IF r.stray_close THEN 1 ELSE 0,
                  !.unlinked = PathExists(sys.sock) /\ ~PathExists(r.sock)]

ShellAgentStop(dies, pid_reused, fd_reused) ==
    DoStop(dies, pid_reused, fd_reused) /\ UNCHANGED notAgent

\* a child shell exits by itself: it stays in the process table until reaped
ShellExits(pid) ==
    /\ ~sys.hung
    /\ pid \in sys.children \ sys.zombies
    /\ sys' = [sys EXCEPT !.zombies = sys.zombies \cup {pid}]
    /\ UNCHANGED <<agent, drain>>
    /\ UNCHANGED notAgent

\* str.endswith
EndsWith(s, t) == Len(s) >= Len(t) /\ SubSeq(s, Len(s) - Len(t) + 1, Len(s)) = t

\* the value of a decimal numeral
RECURSIVE IntValue(_)
IntValue(digits) ==
    IF digits = "" THEN 0
    ELSE 10 * IntValue(SubSeq(digits, 1, Len(digits) - 1))
         + (CHOOSE d \in 0..9 : Char("0123456789", d + 1) = Char(digits, Len(digits)))

\* the largest value of an unsigned short, the "H" of struct.pack
MaxUShort == 65535

\* struct.pack("H", v) accepts v: an int (a bool is one) in range
PacksAsUShort(v) ==
    \/ v.t = "bool"
    \/ v.t = "int" /\ IntValue(v.s) <= MaxUShort

UShortValue(v) == IF v.t = "bool" THEN (IF v.s = "True" THEN 1 ELSE 0) ELSE IntValue(v.s)

\* the requests the agent's handler is given
ExecLs ==
    PyDict(<<PyPair(PyStr("type"), PyStr("execute_command")),
             PyPair(PyStr("payload"), PyDict(<<PyPair(PyStr("command"), PyStr("ls"))>>))>>)

ExecLsNewline ==
    PyDict(<<PyPair(PyStr("type"), PyStr("execute_command")),
             PyPair(PyStr("payload"), PyDict(<<PyPair(PyStr("command"), PyStr("ls\n"))>>))>>)

ExecNothing == PyDict(<<PyPair(PyStr("type"), PyStr("execute_command"))>>)

ResizeHuge ==
    PyDict(<<PyPair(PyStr("type"), PyStr("resize")),
             PyPair(PyStr("payload"),
                    PyDict(<<PyPair(PyStr("rows"), PyInt("70000")),
                             PyPair(PyStr("cols"), PyInt("100"))>>))>>)

ResizeDefault == PyDict(<<PyPair(PyStr("type"), PyStr("resize"))>>)

Ping == PyDict(<<PyPair(PyStr("type"), PyStr("ping"))>>)

AgentRequests ==
    {ExecLs, ExecLsNewline, ExecNothing, MsgResize, ResizeHuge, ResizeDefault, Ping}

StatusOk == PyDict(<<PyPair(PyStr("status"), PyStr("ok"))>>)

StatusError(text) ==
    PyDict(<<PyPair(PyStr("status"), PyStr("error")), PyPair(PyStr("error"), PyStr(text))>>)

CommandSent ==
    PyDict(<<PyPair(PyStr("status"), PyStr("ok")),
             PyPair(PyStr("message"), PyStr("Command sent to shell"))>>)

\* what os.write on the non-blocking master descriptor can do with the data:
\* take all of it, take a part of it (the terminal's input queue fills up) and
\* return the count, or raise (BlockingIOError when the queue is full)
WriteOutcomes == {"all", "part", "fail"}

\* the command line _execute_command hands to os.write
Terminated(command) == IF EndsWith(command, "\n") THEN command ELSE command \o "\n"

\* ShellAgent._execute_command: the reply, the text that reached the shell's
\* terminal, and whether the write hit a descriptor that is not the terminal's
ExecuteCommand(a, y, command, outcome, fd_reused) ==
    LET data == Terminated(command) IN
    IF a.master_fd = 0
    THEN [reply |-> StatusError("Shell not running"), wrote |-> "", stray |-> FALSE]
    ELSE IF a.master_fd \in y.fds
    THEN IF outcome = "all" THEN [reply |-> CommandSent, wrote |-> data, stray |-> FALSE]
         ELSE IF outcome = "part"
         THEN [reply |-> CommandSent, wrote |-> SubSeq(data, 1, Len(data) - 1),
               stray |-> FALSE]
         ELSE [reply |-> StatusError("[Errno 11] Resource temporarily unavailable"),
               wrote |-> "", stray |-> FALSE]
    ELSE IF fd_reused THEN [reply |-> CommandSent, wrote |-> "", stray |-> TRUE]
    ELSE [reply |-> StatusError("[Errno 9] Bad file descriptor"), wrote |-> "",
          stray |-> FALSE]

\* ShellAgent._resize_pty: the geometry map afterwards, whether an ioctl was
\* issued, and whether it hit a descriptor that is not the terminal's.
\* struct.pack raises for a value that is no unsigned short, ioctl raises on a
\* descriptor that is closed; both are caught and logged.
ResizePty(a, y, rows, cols, fd_reused) ==
    IF a.master_fd = 0 \/ ~(PacksAsUShort(rows) /\ PacksAsUShort(cols))
    THEN [geometry |-> y.geometry, ioctls |-> 0, stray |-> FALSE]
    ELSE IF a.master_fd \in y.fds
    THEN [geometry |-> WithGeometry(y.geometry, a.master_fd,
                                    <<UShortValue(rows), UShortValue(cols)>>),
          ioctls |-> 1, stray |-> FALSE]
    ELSE [geometry |-> y.geometry, ioctls |-> 1, stray |-> fd_reused]

\* ShellAgent.handle_ipc_request: the reply and what the call did
HandlerResult(a, y, request, outcome, fd_reused) ==
    LET req_type == DictGet(request, PyStr("type"), PyNone)
        payload == DictGet(request, PyStr("payload"), PyDict(<<>>))
        quiet == [reply |-> PyNone, wrote |-> "", stray_write |-> FALSE,
                  geometry |-> y.geometry, ioctls |-> 0, stray_ioctl |-> FALSE]
    IN IF req_type = PyStr("execute_command")
       THEN LET command == DictGet(payload, PyStr("command"), PyNone) IN
            IF command = PyNone \/ command = PyStr("")
            THEN [quiet EXCEPT !.reply = StatusError("No command provided")]
            ELSE LET r == ExecuteCommand(a, y, command.s, outcome, fd_reused) IN
                 [quiet EXCEPT !.reply = r.reply, !.wrote = r.wrote,
                               !.stray_write = r.stray]
       ELSE IF req_type = PyStr("resize")
       THEN LET rows == DictGet(payload, PyStr("rows"), PyInt("24"))
                cols == DictGet(payload, PyStr("cols"), PyInt("80"))
                r == ResizePty(a, y, rows, cols, fd_reused)
            IN [quiet EXCEPT !.reply = StatusOk, !.geometry = r.geometry,
                             !.ioctls = r.ioctls, !.stray_ioctl = r.stray]
       ELSE [quiet EXCEPT !.reply = StatusError("Unknown request type: " \o req_type.s)]

\* handle_ipc_request called with request; outcome and fd_reused are what the
\* system does with the write or the ioctl, if the call gets to one
DoRequest(request, outcome, fd_reused) ==
    LET r == HandlerResult(agent, sys, request, outcome, fd_reused) IN
    /\ LoopFree
    /\ sys' = [Merge(sys, NoCall) EXCEPT
                  !.last = "request", !.before = sys.history,
                  !.request = request, !.reply = r.reply,
                  !.wrote = r.wrote,
                  !.stray_writes = IF r.stray_write THEN 1 ELSE 0,
                  !.geometry = r.geometry,
                  !.ioctls = r.ioctls,
                  !.stray_ioctls = IF r.stray_ioctl THEN 1 ELSE 0]
    /\ drain' = IF drain.pc = "sleeping" THEN [drain EXCEPT !.served = TRUE] ELSE drain
    /\ UNCHANGED agent

HandleIpcRequest(request, outcome, fd_reused) ==
    DoRequest(request, outcome, fd_reused) /\ UNCHANGED notAgent

\* the test of the drain loop: while self.running and self.master_fd
DrainContinues(a) == a.running /\ a.master_fd # 0

\* what os.read on the master descriptor can give the drain task: data, no data
\* (BlockingIOError), end of file or OSError once the shell has exited, OSError
\* on a descriptor that stop has closed
ReadOutcomes(a, y) ==
    IF a.master_fd \notin y.fds THEN {"error"}
    ELSE IF a.pid \in y.children \ y.zombies THEN {"data", "nodata"}
    ELSE {"data", "eof", "error"}

\* a variant of the loop whose continue on BlockingIOError goes back to os.read
\* without sleeping
DrainAfterReadBusy(a, outcome) ==
    IF outcome \in {"eof", "error"} THEN "done"
    ELSE IF ~DrainContinues(a) THEN "done"
    ELSE IF outcome = "nodata" THEN "reading"
    ELSE "sleeping"

\* where the drain task is after os.read gave outcome: an empty read or an
\* OSError breaks out of the loop; data or BlockingIOError goes back to the loop
\* test and, if it holds, into asyncio.sleep
DrainAfterRead(a, outcome) ==
    IF outcome \in {"eof", "error"} THEN "done"
    ELSE IF DrainContinues(a) THEN "sleeping"
    ELSE "done"

\* the event loop runs the drain task for the first time: the loop test, then
\* asyncio.sleep
DrainBegins ==
    /\ LoopFree
    /\ drain.pc = "scheduled"
    /\ drain' = [drain EXCEPT !.pc = IF DrainContinues(agent) THEN "sleeping" ELSE "done"]
    /\ UNCHANGED <<agent, sys>>
    /\ UNCHANGED notAgent

\* the event loop resumes the drain task after its sleep (or the task goes on
\* without having slept): os.read, then on to the next suspension
DrainReads(outcome) ==
    /\ ~sys.hung
    /\ drain.pc \in {"sleeping", "reading"}
    /\ drain' = [pc |-> DrainAfterRead(agent, outcome),
                 last |-> outcome, prev |-> drain.last,
                 served |-> FALSE, between |-> drain.served]
    /\ UNCHANGED <<agent, sys>>
    /\ UNCHANGED notAgent

\* whether the request, as the agent stands, gets to os.write or to ioctl
ReachesWrite(request) ==
    /\ DictGet(request, PyStr("type"), PyNone) = PyStr("execute_command")
    /\ DictHas(request, PyStr("payload"))
    /\ agent.master_fd \in sys.fds

ReachesClosed(request) ==
    /\ request \notin {ExecNothing, Ping}
    /\ agent.master_fd # 0 /\ agent.master_fd \notin sys.fds

AgentInit == agent = NewAgent /\ sys = NewSys /\ drain = NoDrain

AgentNext ==
    \/ \E failure \in {"none", "fork", "bind"} : ShellAgentStart(failure)
    \/ \E dies \in (IF agent.pid \in sys.children \ sys.zombies THEN BOOLEAN ELSE {TRUE}),
          pid_reused \in (IF agent.pid \notin sys.children \cup {0} THEN BOOLEAN ELSE {FALSE}),
          fd_reused \in (IF agent.master_fd \notin sys.fds \cup {0} THEN BOOLEAN ELSE {FALSE}) :
          ShellAgentStop(dies, pid_reused, fd_reused)
    \/ ShellExits(agent.pid)
    \/ \E request \in AgentRequests :
          \E outcome \in (IF ReachesWrite(request) THEN WriteOutcomes ELSE {"all"}),
             fd_reused \in (IF ReachesClosed(request) THEN BOOLEAN ELSE {FALSE}) :
             HandleIpcRequest(request, outcome, fd_reused)

\* the agent started once, with its drain task running beside the requests
DrainRequests == {ExecLs, MsgResize, Ping}

DrainNext ==
    \/ sys.forks = 0 /\ ShellAgentStart("none")
    \/ \E dies \in BOOLEAN : ShellAgentStop(dies, FALSE, FALSE)
    \/ ShellExits(agent.pid)
    \/ \E request \in DrainRequests :
          \E outcome \in (IF ReachesWrite(request) THEN WriteOutcomes ELSE {"all"}) :
             HandleIpcRequest(request, outcome, FALSE)
    \/ DrainBegins
    \/ \E outcome \in ReadOutcomes(agent, sys) : DrainReads(outcome)

(***************************************************************************)
(* The process boundary: main() of adminmcp.agent_runner and of            *)
(* adminmcp.main.  proc.pc is where main() stands: "none" (not launched),   *)
(* "running" (the agent started; agent_runner sleeps in its loop, main      *)
(* awaits server.run), "finally" (in the finally clause), "stopped"         *)
(* (agent.stop returned), "blocked" (agent.stop does not return), "raised"  *)
(* (the finally clause raised), "exited".                                  *)
(***************************************************************************)

Entries == {"agent_runner", "main"}

NoProc ==
    [entry |-> "none", pc |-> "none", fatal |-> FALSE, writer |-> FALSE,
     cleanup |-> FALSE, code |-> 0]

\* a variant of the except clause that ends the process at once (os._exit)
ExceptHandlerHardExit(entry) == "exited"

\* except Exception: logger.error(...); sys.exit(1).  SystemExit is raised inside
\* the try statement, so the finally clause runs before it leaves main()
ExceptHandler(entry) == "finally"

\* asyncio.open_unix_connection reaches a server: the path is bound and its
\* server is listening
CanConnect(s) == s.file = "bound" /\ s.owner \in s.live

\* main() up to the end of await agent.start(); in adminmcp.main a start that
\* returned is followed by server.run(), which first tries to connect its IPC
\* client and goes on without it if that fails
Launch(entry, failure, connect_ok) ==
    /\ proc.pc = "none"
    /\ DoStart(failure)
    /\ proc' = [entry |-> entry,
                pc |-> IF sys'.raised THEN ExceptHandler(entry) ELSE "running",
                fatal |-> sys'.raised,
                writer |-> entry = "main" /\ ~sys'.raised /\ connect_ok
                           /\ CanConnect(sys'.sock),
                cleanup |-> FALSE, code |-> 0]
    /\ UNCHANGED notMain

\* what ends the wait of main(): server.run() returns (its input ended) or
\* raises; the loop of agent_runner ends only when the task is cancelled
RunEndings(entry) == IF entry = "main" THEN {"returns", "raises"} ELSE {"cancelled"}

RunEnds(how) ==
    /\ proc.pc = "running"
    /\ how \in RunEndings(proc.entry)
    /\ proc' = [proc EXCEPT !.fatal = (how = "raises"),
                            !.pc = IF how = "raises" THEN ExceptHandler(proc.entry)
                                   ELSE "finally"]
    /\ UNCHANGED agentVars
    /\ UNCHANGED notMain

\* the finally clause: adminmcp.main closes the server's IPC client, then both
\* await agent.stop()
Cleanup(dies) ==
    /\ proc.pc = "finally"
    /\ DoStop(dies, FALSE, FALSE)
    /\ proc' = [proc EXCEPT !.writer = FALSE,
                            !.cleanup = ~sys'.hung /\ ~sys'.raised,
                            !.pc = IF sys'.hung THEN "blocked"
                                   ELSE IF sys'.raised THEN "raised"
                                   ELSE "stopped"]
    /\ UNCHANGED notMain

\* main() is left and asyncio.run returns or re-raises: the process ends
Exits ==
    /\ proc.pc \in {"stopped", "raised"}
    /\ proc' = [proc EXCEPT !.pc = "exited",
                            !.code = IF proc.fatal \/ proc.pc = "raised" THEN 1 ELSE 0]
    /\ UNCHANGED agentVars
    /\ UNCHANGED notMain

MainInit == proc = NoProc

MainNext ==
    \/ \E entry \in Entries, failure \in {"none", "fork", "bind"}, connect_ok \in BOOLEAN :
          Launch(entry, failure, connect_ok)
    \/ /\ proc.pc = "running"
       /\ \E request \in DrainRequests :
             \E outcome \in (IF ReachesWrite(request) THEN WriteOutcomes ELSE {"all"}) :
                HandleIpcRequest(request, outcome, FALSE)
    \/ proc.pc = "running" /\ ShellExits(agent.pid)
    \/ \E how \in {"returns", "raises", "cancelled"} : RunEnds(how)
    \/ \E dies \in BOOLEAN : Cleanup(dies)
    \/ Exits

(***************************************************************************)
(* SecurityValidator (adminmcp.core.security).  A compiled pattern is a    *)
(* sequence of items; an item accepts one character (any but a newline,   *)
(* or one of a set) and is taken once, zero or more times ("*"), or one or *)
(* more times ("+").                                                       *)
(***************************************************************************)

\* the characters \s accepts
ReSpace == {" ", "\t", "\n", "\r", "\f"}

BLOCKED_PATTERNS ==
    <<"rm\\s+-[rf]+.*\\/",
      ":\\(\\)\\s*{\\s*:\\s*\\|\\s*:\\s*&\\s*};\\s*:",
      "mkfs",
      "dd\\s+if=",
      ">\\s*/dev/sd[a-z]">>

\* the characters of a class body: a range x-y or the characters listed
ClassSet(body) ==
    IF Len(body) = 3 /\ Char(body, 2) = "-"
    THEN {Chr(b) : b \in OrdOf[Char(body, 1)]..OrdOf[Char(body, 3)]}
    ELSE {Char(body, k) : k \in 1..Len(body)}

\* re.compile: the items of pattern p from position i on
RECURSIVE Compile(_, _)
Compile(p, i) ==
    IF i > Len(p) THEN <<>>
    ELSE LET c == Char(p, i)
             close == CHOOSE j \in i..Len(p) : Char(p, j) = "]" /\ \A k \in i..(j - 1) : Char(p, k) # "]"
             atom == IF c = "\\"
                     THEN [len |-> 2, any |-> FALSE,
                           set |-> IF Char(p, i + 1) = "s" THEN ReSpace ELSE {Char(p, i + 1)}]
                     ELSE IF c = "." THEN [len |-> 1, any |-> TRUE, set |-> {}]
                     ELSE IF c = "["
                     THEN [len |-> close - i + 1, any |-> FALSE,
                           set |-> ClassSet(SubSeq(p, i + 1, close - 1))]
                     ELSE [len |-> 1, any |-> FALSE, set |-> {c}]
             k == i + atom.len
             q == IF k <= Len(p) /\ Char(p, k) \in {"*", "+"} THEN Char(p, k) ELSE "1"
         IN <<[any |-> atom.any, set |-> atom.set, q |-> q]>>
            \o Compile(p, IF q = "1" THEN k ELSE k + 1)

\* self._compiled_patterns
CompiledPatterns == [k \in 1..Len(BLOCKED_PATTERNS) |-> Compile(BLOCKED_PATTERNS[k], 1)]

Accepts(item, c) == IF item.any THEN c # "\n" ELSE c \in item.set

\* how many characters of s from position i on the item accepts in a row
RECURSIVE RunLength(_, _, _)
RunLength(item, s, i) ==
    IF i <= Len(s) /\ Accepts(item, Char(s, i)) THEN 1 + RunLength(item, s, i + 1) ELSE 0

\* the items of re from the k-th on match s at position i
RECURSIVE MatchHere(_, _, _, _)
MatchHere(re, k, s, i) ==
    IF k > Len(re) THEN TRUE
    ELSE IF re[k].q = "1"
    THEN i <= Len(s) /\ Accepts(re[k], Char(s, i)) /\ MatchHere(re, k + 1, s, i + 1)
    ELSE \E n \in (IF re[k].q = "+" THEN 1 ELSE 0)..RunLength(re[k], s, i) :
            MatchHere(re, k + 1, s, i + n)

\* a variant that matches at the start of the string only (pattern.match)
MatchAtStart(re, s) == MatchHere(re, 1, s, 1)

\* pattern.search(command) finds a match
Search(re, s) == \E i \in 1..(Len(s) + 1) : MatchHere(re, 1, s, i)

\* a variant that checks the patterns in every mode
validate_command_any_mode(mode, command) ==
    ~\E k \in 1..Len(CompiledPatterns) : Search(CompiledPatterns[k], command)

\* SecurityValidator.validate_command for a validator of the given mode
validate_command(mode, command) ==
    IF mode = "autonomous" THEN TRUE
    ELSE ~\E k \in 1..Len(CompiledPatterns) : Search(CompiledPatterns[k], command)

\* the modes a validator is constructed with
ValidatorModes == {"autonomous", "restricted", "Autonomous", ""}

Commands ==
    {"", "ls -la", "echo hello", "echo hello\n",
     "rm -rf /", "rm -r /etc", "rm  -fr ~/x", "sudo rm -rf /tmp/x", "rm -rf .",
     "rm -rf\n/", "rm -Rf /", "rm -i -r /etc", "rm -f notes.txt", "rm -f ./notes.txt",
     "rm file", "firm -f a/b", "rm -rf", "rm-rf /",
     "mkfs.ext4 /dev/sda", "mkfs", "echo mkfs", "MKFS /dev/sda",
     ":(){ :|:& };:", ":(){:|:&};:", ":()\t{ : | : & };  :", ": (){ :|:& };:",
     ":(){ :|:& } ;:", "f(){ f|f& };f",
     "dd if=/dev/zero of=/dev/sda", "dd\tif=x", "dd of=/dev/sda if=x", "ddif=x",
     "echo x > /dev/sda", "echo x >/dev/sdb1", "cat /dev/sda", "echo x > /dev/sd",
     "echo x > /dev/nvme0"}

NoValidation == [called |-> FALSE, mode |-> "restricted", command |-> "", valid |-> TRUE]

\* SecurityValidator(mode).validate_command(command)
Validate(mode, command) ==
    /\ sec' = [called |-> TRUE, mode |-> mode, command |-> command,
               valid |-> validate_command(mode, command)]
    /\ UNCHANGED notSec

SecInit == sec = NoValidation

SecNext == \E mode \in ValidatorModes, command \in Commands : Validate(mode, command)

(***************************************************************************)
(* AdminMCPServer (adminmcp.server): call_tool and _execute_command over   *)
(* the server's IPC client.  tool.writer is whether the client holds a      *)
(* connection; the other fields are what the last call_tool was given and  *)
(* did: the requests it sent, the text that reached the shell's terminal,  *)
(* the operator confirmations it obtained.                                 *)
(***************************************************************************)

ToolNames == {"execute_command", "system_info", "shutdown"}

ToolCommands == {"", "ls -la", "rm -rf /", "echo x > /dev/sda", "echo hello\n"}

\* the values of the tool's mode argument
ExecutionModes == {"autonomous", "tutor"}

\* SecurityValidator(): the validator the server constructs
DefaultValidatorMode == "restricted"

NoTool ==
    [writer |-> FALSE, called |-> FALSE, name |-> "", command |-> "", mode |-> "",
     raised |-> FALSE, blocked |-> FALSE, response |-> PyNone, was_connected |-> FALSE,
     sent |-> 0, wrote |-> "", confirmations |-> 0]

\* a variant that takes the posture from the tool's mode argument
ToolValidatesByMode(command, mode) == validate_command(mode, command)

\* self.security.validate_command(command)
ToolValidates(command, mode) == validate_command(DefaultValidatorMode, command)

\* the request _execute_command sends, with the id send_request adds
ToolRequest(command, mode) ==
    PyDict(<<PyPair(PyStr("type"), PyStr("execute_command")),
             PyPair(PyStr("payload"),
                    PyDict(<<PyPair(PyStr("command"), PyStr(command)),
                             PyPair(PyStr("mode"), PyStr(mode))>>)),
             PyPair(PyStr("id"), PyStr("u1"))>>)

\* call_tool(name, {"command": command, "mode": mode}).  An execute_command call
\* with a command that passes the validator goes to _execute_command, which
\* connects the client if it has no connection (connect_ok: the environment lets
\* it) and sends the request; the agent's handler answers it.  Nothing on this
\* path asks the operator for a confirmation.
CallTool(name, command, mode, connect_ok, outcome, fd_reused) ==
    LET executes == name = "execute_command" /\ command # ""
        allowed == ToolValidates(command, mode)
        reaches == executes /\ allowed
        connected == tool.writer \/ (connect_ok /\ CanConnect(sys.sock))
        sends == reaches /\ connected
    IN /\ LoopFree
       /\ IF sends THEN DoRequest(ToolRequest(command, mode), outcome, fd_reused)
          ELSE UNCHANGED agentVars
       /\ tool' = [writer |-> IF reaches THEN connected ELSE tool.writer,
                   called |-> TRUE, name |-> name, command |-> command, mode |-> mode,
                   raised |-> (name = "execute_command" /\ command = "")
                              \/ name \notin {"execute_command", "system_info",
                                              "list_processes"},
                   blocked |-> executes /\ ~allowed,
                   response |-> IF sends THEN sys'.reply
                                ELSE IF reaches
                                THEN StatusError("Connection failed")
                                ELSE PyNone,
                   was_connected |-> tool.writer,
                   sent |-> IF sends THEN 1 ELSE 0,
                   wrote |-> IF sends THEN sys'.wrote ELSE "",
                   confirmations |-> 0]
       /\ UNCHANGED notTool

ToolInit == tool = NoTool

ToolNext ==
    \/ sys.forks = 0 /\ ShellAgentStart("none")
    \/ \E dies \in BOOLEAN : ShellAgentStop(dies, FALSE, FALSE)
    \/ \E name \in ToolNames, command \in ToolCommands, mode \in ExecutionModes,
          connect_ok \in (IF tool.writer THEN {TRUE} ELSE BOOLEAN),
          outcome \in (IF agent.master_fd \in sys.fds THEN {"all", "fail"} ELSE {"all"}),
          fd_reused \in (IF agent.master_fd \notin sys.fds \cup {0} THEN BOOLEAN
                         ELSE {FALSE}) :
          CallTool(name, command, mode, connect_ok, outcome, fd_reused)

(***************************************************************************)
(* AdminMCPServer's IPC client over the lifetimes of the agent process:    *)
(* run() tries to connect once, _execute_command connects when the client  *)
(* has no writer.  The agent process may end and be started again, and     *)
(* the agent may close a connection; mcp.writer is the run of the agent    *)
(* the client's writer was connected to (0: self.writer is None), and      *)
(* mcp.peer_open whether the agent's end of that connection is open.       *)
(***************************************************************************)

MaxCalls == 3       \* execute_command calls the server handles
MaxAgentRuns == 2   \* times the agent process is started

NoAnswer ==
    [made |-> FALSE, reachable |-> FALSE, had_writer |-> FALSE, lost |-> FALSE,
     connected |-> FALSE, response |-> PyNone]

NoClient ==
    [started |-> FALSE, writer |-> 0, peer_open |-> FALSE,
     agent_run |-> 0, agent_up |-> FALSE, calls |-> 0, last |-> NoAnswer]

\* IPCClient.connect: open_unix_connection succeeds when a server listens at
\* the path, and raises IPCError("Connection failed: ...") otherwise
IPCClientConnect(c) ==
    IF c.agent_up
    THEN [raised |-> FALSE, writer |-> c.agent_run, peer_open |-> TRUE]
    ELSE [raised |-> TRUE, writer |-> c.writer, peer_open |-> c.peer_open]

\* what send_request raises on a connection whose other end is closed: the write
\* fails, or it seems to succeed and receive_message returns None
LostConnectionErrors ==
    {"Send failed: Connection lost", "Connection closed by server"}

\* AdminMCPServer._execute_command: the client's fields afterwards, whether the
\* call connected, and the mapping returned
ExecuteOverIpc(c, lost_error) ==
    LET connects == c.writer = 0
        k == IF connects THEN IPCClientConnect(c)
             ELSE [raised |-> FALSE, writer |-> c.writer, peer_open |-> c.peer_open]
    IN [writer |-> k.writer, peer_open |-> k.peer_open,
        connected |-> connects /\ ~k.raised,
        response |-> IF k.raised
                     THEN StatusError("Connection failed: [Errno 2] No such file or directory")
                     ELSE IF k.peer_open THEN CommandSent
                     ELSE StatusError(lost_error)]

\* the agent process is started: its IPC server listens at the socket path
AgentProcessStarts ==
    /\ ~mcp.agent_up /\ mcp.agent_run < MaxAgentRuns
    /\ mcp' = [mcp EXCEPT !.agent_up = TRUE, !.agent_run = mcp.agent_run + 1]
    /\ UNCHANGED notClient

\* the agent process ends: nothing listens at the path, its sockets are closed
AgentProcessEnds ==
    /\ mcp.agent_up
    /\ mcp' = [mcp EXCEPT !.agent_up = FALSE, !.peer_open = FALSE]
    /\ UNCHANGED notClient

\* the agent's _handle_client leaves its loop and closes the connection
AgentClosesConnection ==
    /\ mcp.agent_up /\ mcp.peer_open
    /\ mcp' = [mcp EXCEPT !.peer_open = FALSE]
    /\ UNCHANGED notClient

\* AdminMCPServer.run up to app.run: one connection attempt, a failure logged
McpRun ==
    /\ ~mcp.started
    /\ LET k == IPCClientConnect(mcp) IN
       mcp' = [mcp EXCEPT !.started = TRUE, !.writer = k.writer,
                          !.peer_open = k.peer_open]
    /\ UNCHANGED notClient

\* an execute_command tool call that passed the validator
McpExecuteCommand(lost_error) ==
    /\ mcp.started /\ mcp.calls < MaxCalls
    /\ LET r == ExecuteOverIpc(mcp, lost_error) IN
       mcp' = [mcp EXCEPT !.writer = r.writer, !.peer_open = r.peer_open,
                          !.calls = mcp.calls + 1,
                          !.last = [made |-> TRUE, reachable |-> mcp.agent_up,
                                    had_writer |-> mcp.writer # 0,
                                    lost |-> mcp.writer # 0 /\ ~mcp.peer_open,
                                    connected |-> r.connected,
                                    response |-> r.response]]
    /\ UNCHANGED notClient

ClientInit == mcp = NoClient

ClientNext ==
    \/ AgentProcessStarts
    \/ AgentProcessEnds
    \/ AgentClosesConnection
    \/ McpRun
    \/ \E lost_error \in (IF mcp.writer # 0 /\ ~mcp.peer_open THEN LostConnectionErrors
                           ELSE {"Connection closed by server"}) :
          McpExecuteCommand(lost_error)

(***************************************************************************)
(* Two tasks of one event loop calling send_request on the same IPCClient. *)
(* A task runs from one suspension to the next without interruption; the   *)
(* only suspension of send_request is readexactly waiting for data, and a  *)
(* StreamReader lets one coroutine wait at a time.  Requests are numbered; *)
(* a response carries the number of the request it answers.  Frames arrive *)
(* whole (their splitting is the subject of the framing model).            *)
(***************************************************************************)

MaxSends == 3     \* send_request calls made on the client

Tasks == {1, 2}

NoResult == [kind |-> "none", answers |-> 0, text |-> ""]

NoTask == [pc |-> "idle", request |-> 0, result |-> NoResult]

NoPair ==
    [tasks |-> [t \in Tasks |-> NoTask], waiter |-> 0,
     c2s |-> <<>>, s2c |-> <<>>, rbuf |-> <<>>, sends |-> 0]

WaiterBusy ==
    "Receive failed: readexactly() called while another coroutine is already waiting for incoming data"

\* receive_message as a task runs it: a frame in the reader's buffer is taken
\* at once; with an empty buffer readexactly raises RuntimeError if another
\* coroutine is the reader's waiter, and suspends as the waiter otherwise
ReadResponse(buffer, waiter) ==
    IF buffer # <<>> THEN [kind |-> "got", answers |-> Head(buffer), rest |-> Tail(buffer)]
    ELSE IF waiter # 0 THEN [kind |-> "busy", answers |-> 0, rest |-> buffer]
    ELSE [kind |-> "wait", answers |-> 0, rest |-> buffer]

\* send_request from receive_message on, for task t whose request is n
AfterRead(p, t, n, r) ==
    [p EXCEPT !.rbuf = r.rest,
              !.waiter = IF r.kind = "wait" THEN t ELSE p.waiter,
              !.tasks[t] =
                  [pc |-> IF r.kind = "got" THEN "returned"
                          ELSE IF r.kind = "busy" THEN "raised"
                          ELSE "waiting",
                   request |-> n,
                   result |-> IF r.kind = "got"
                              THEN [kind |-> "returned", answers |-> r.answers, text |-> ""]
                              ELSE IF r.kind = "busy"
                              THEN [kind |-> "raised", answers |-> 0, text |-> WaiterBusy]
                              ELSE NoResult]]

\* task t calls send_request: the frame is written (drain does not suspend),
\* then the response is awaited
SendRequestBegins(t) ==
    /\ pair.tasks[t].pc \in {"idle", "returned", "raised"}
    /\ pair.sends < MaxSends
    /\ LET n == pair.sends + 1
           p == [pair EXCEPT !.sends = n, !.c2s = Append(pair.c2s, n)]
       IN pair' = AfterRead(p, t, n, ReadResponse(p.rbuf, p.waiter))
    /\ UNCHANGED notOverlap

\* the event loop resumes task t, whose wait for data has ended
SendRequestResumes(t) ==
    /\ pair.tasks[t].pc = "woken"
    /\ pair' = AfterRead(pair, t, pair.tasks[t].request,
                         ReadResponse(pair.rbuf, pair.waiter))
    /\ UNCHANGED notOverlap

\* the server's _handle_client reads the next request and writes its response
ServerAnswers ==
    /\ pair.c2s # <<>>
    /\ pair' = [pair EXCEPT !.c2s = Tail(pair.c2s),
                            !.s2c = Append(pair.s2c, Head(pair.c2s))]
    /\ UNCHANGED notOverlap

\* the transport feeds the next response to the reader: the waiter, if there is
\* one, is released and scheduled to run
TransportDelivers ==
    /\ pair.s2c # <<>>
    /\ pair' = [pair EXCEPT
                   !.s2c = Tail(pair.s2c),
                   !.rbuf = Append(pair.rbuf, Head(pair.s2c)),
                   !.waiter = 0,
                   !.tasks = [t \in Tasks |->
                                 IF t = pair.waiter
                                 THEN [pair.tasks[t] EXCEPT !.pc = "woken"]
                                 ELSE pair.tasks[t]]]
    /\ UNCHANGED notOverlap

OverlapInit == pair = NoPair

OverlapNext ==
    \/ \E t \in Tasks : SendRequestBegins(t)
    \/ \E t \in Tasks : SendRequestResumes(t)
    \/ ServerAnswers
    \/ TransportDelivers

(***************************************************************************)
(* adminmcp.cli: start_server and stop_server run by concurrent CLI        *)
(* processes.  Each call is a sequence of system calls, and the calls of   *)
(* different processes interleave between them.  pidf.file is the pid in   *)
(* the PID file (0: no file), pidf.alive the launched server processes     *)
(* that are alive, pidf.clis where each CLI process stands.                *)
(***************************************************************************)

MaxLaunches == 2  \* server processes launched

Clis == {1, 2}

IdleCli == [pc |-> "idle", pid |-> 0, last |-> "none"]

NoPidFile == 0

NoServers ==
    [file |-> NoPidFile, alive |-> {}, launched |-> 0, clis |-> [c \in Clis |-> IdleCli]]

\* is_server_running: the PID file exists and signal 0 reaches the pid in it
is_server_running(file, alive) == file # NoPidFile /\ file \in alive

\* the CLI process c goes to pc with pid in hand
CliAt(c, pc, pid) == [pidf.clis EXCEPT ![c] = [pidf.clis[c] EXCEPT !.pc = pc, !.pid = pid]]

\* the call of CLI process c is over
CliDone(c, outcome) == [pidf.clis EXCEPT ![c] = [pc |-> "idle", pid |-> 0, last |-> outcome]]

\* start_server up to the launch: the check
StartServerChecks(c) ==
    /\ pidf.clis[c].pc = "idle"
    /\ pidf' = [pidf EXCEPT !.clis = IF is_server_running(pidf.file, pidf.alive)
                                     THEN CliDone(c, "already running")
                                     ELSE CliAt(c, "launching", 0)]
    /\ UNCHANGED notPid

\* subprocess.Popen: a new server process, or an exception, which is reported
StartServerLaunches(c, ok) ==
    /\ pidf.clis[c].pc = "launching"
    /\ ok => pidf.launched < MaxLaunches
    /\ pidf' = IF ok
               THEN [pidf EXCEPT !.launched = pidf.launched + 1,
                                 !.alive = pidf.alive \cup {pidf.launched + 1},
                                 !.clis = CliAt(c, "writing", pidf.launched + 1)]
               ELSE [pidf EXCEPT !.clis = CliDone(c, "failed")]
    /\ UNCHANGED notPid

\* the pid of the launched process is written to the PID file
StartServerWrites(c) ==
    /\ pidf.clis[c].pc = "writing"
    /\ pidf' = [pidf EXCEPT !.file = pidf.clis[c].pid, !.clis = CliDone(c, "started")]
    /\ UNCHANGED notPid

\* stop_server: os.path.exists(PID_FILE)
StopServerChecks(c) ==
    /\ pidf.clis[c].pc = "idle"
    /\ pidf' = [pidf EXCEPT !.clis = IF pidf.file = NoPidFile
                                     THEN CliDone(c, "not running")
                                     ELSE CliAt(c, "reading", 0)]
    /\ UNCHANGED notPid

\* the pid is read from the file; a file that has gone makes open() raise an
\* OSError, handled by reporting that the server was not running
StopServerReads(c) ==
    /\ pidf.clis[c].pc = "reading"
    /\ pidf' = [pidf EXCEPT !.clis = IF pidf.file = NoPidFile
                                     THEN CliDone(c, "was not running")
                                     ELSE CliAt(c, "signalling", pidf.file)]
    /\ UNCHANGED notPid

\* os.kill(pid, SIGTERM), which ends the server; for a pid that names no process
\* it raises an OSError, and the handler removes the PID file if there is one
StopServerSignals(c) ==
    /\ pidf.clis[c].pc = "signalling"
    /\ pidf' = IF pidf.clis[c].pid \in pidf.alive
               THEN [pidf EXCEPT !.alive = pidf.alive \ {pidf.clis[c].pid},
                                 !.clis = CliAt(c, "removing", pidf.clis[c].pid)]
               ELSE [pidf EXCEPT !.file = NoPidFile,
                                 !.clis = CliDone(c, "was not running")]
    /\ UNCHANGED notPid

\* os.remove(PID_FILE), whatever the file holds by now; without a file it
\* raises an OSError and the handler reports that the server was not running
StopServerRemoves(c) ==
    /\ pidf.clis[c].pc = "removing"
    /\ pidf' = [pidf EXCEPT !.file = NoPidFile,
                            !.clis = IF pidf.file = NoPidFile
                                     THEN CliDone(c, "was not running")
                                     ELSE CliDone(c, "stopped")]
    /\ UNCHANGED notPid

\* a launched server process ends by itself
LaunchedServerExits(pid) ==
    /\ pid \in pidf.alive
    /\ pidf' = [pidf EXCEPT !.alive = pidf.alive \ {pid}]
    /\ UNCHANGED notPid

PidInit == pidf = NoServers

PidNext ==
    \/ \E c \in Clis : StartServerChecks(c)
    \/ \E c \in Clis, ok \in BOOLEAN : StartServerLaunches(c, ok)
    \/ \E c \in Clis : StartServerWrites(c)
    \/ \E c \in Clis : StopServerChecks(c)
    \/ \E c \in Clis : StopServerReads(c)
    \/ \E c \in Clis : StopServerSignals(c)
    \/ \E c \in Clis : StopServerRemoves(c)
    \/ \E pid \in 1..MaxLaunches : LaunchedServerExits(pid)

Init ==
    /\ PolInit /\ ExInit /\ IpcInit /\ ConnInit /\ AgentInit
    /\ MainInit /\ SecInit /\ ToolInit
    /\ ClientInit /\ OverlapInit /\ PidInit

SpecPolicy == Init /\ [][PolNext]_vars

SpecExec == Init /\ [][ExNext]_vars

SpecIPC == Init /\ [][IpcNext]_vars

SpecServer == Init /\ [][ServerNext]_vars

SpecConn == Init /\ [][ConnNext]_vars

SpecAgent == Init /\ [][AgentNext]_vars

SpecDrain == Init /\ [][DrainNext]_vars

SpecMain == Init /\ [][MainNext]_vars

SpecSecurity == Init /\ [][SecNext]_vars

SpecTool == Init /\ [][ToolNext]_vars
SpecClient == Init /\ [][ClientNext]_vars
SpecOverlap == Init /\ [][OverlapNext]_vars
SpecPid == Init /\ [][PidNext]_vars

(***************************************************************************)
(* Properties of the policy path                                           *)
(***************************************************************************)

DeniedWords == {"rm -rf /", "mkfs", "shutdown", "reboot", "poweroff"}

ReviewWords == {"userdel", "iptables", "firewall-cmd", "dd if="}

\* the trimmed, lower-cased command line contains a denylisted substring
ContainsDenied(command) == \E w \in DeniedWords : Contains(Lower(Strip(command)), w)

\* the trimmed, lower-cased command line contains a review keyword
ContainsReview(command) == \E w \in ReviewWords : Contains(Lower(Strip(command)), w)

\* the operation in flight asked the policy engine and got an answer
Decided == op.kind # "idle" /\ op.decision # "NONE"

\* C1 (as claimed): on the tool path and on the CLI path, a command whose policy
\* decision in the mode of the call is DENY or ELICIT reaches no execution layer:
\* no subprocess is spawned by the tool and CommandExecutor.run is not called.
C1_DeniedNeverExecuted ==
    (/\ op.kind \in {"tool", "cli"}
     /\ Strip(op.command) # ""
     /\ evaluate(op.command, ToolPolicyMode(op.mode), roots) \in {"DENY", "ELICIT"})
    => (op.localRuns = 0 /\ op.spawns = 0)

\* C2: a command whose trimmed, lower-cased form contains a denylisted substring
\* is answered DENY by evaluate in every mode and every context, and DENY is the
\* decision the callers got.
C2_DenylistAlwaysDeny ==
    (op.kind # "idle" /\ ContainsDenied(op.command))
    => /\ \A m \in ToolModes, c \in RootValues : evaluate(op.command, m, c) = "DENY"
       /\ (Decided => op.decision = "DENY")

C2_Witness ==
    /\ op.kind = "tool" /\ op.mode = "watch" /\ op.command = "rm -rf /"
    /\ op.decision = "DENY"

\* C3 (as claimed): in watch mode every command containing a review keyword is
\* answered ELICIT.
C3_ReviewInWatchElicits ==
    (Decided /\ ToolPolicyMode(op.mode) = "watch" /\ ContainsReview(op.command))
    => op.decision = "ELICIT"

\* C3 (amended): in watch mode a command containing a review keyword is never
\* answered EXECUTE; it is answered ELICIT unless it also contains a denylisted
\* substring, and DENY if it does.
C3_ReviewInWatchNeverExecutes ==
    (Decided /\ ToolPolicyMode(op.mode) = "watch" /\ ContainsReview(op.command))
    => /\ op.decision # "EXECUTE"
       /\ (op.decision = "ELICIT" <=> ~ContainsDenied(op.command))
       /\ evaluate(op.command, "watch", roots) = op.decision

C3_Witness ==
    /\ op.kind = "tool" /\ op.mode = "watch" /\ op.command = "iptables"
    /\ op.decision = "ELICIT"

\* C4: a command containing both a denylisted substring and a review keyword is
\* answered DENY in every mode, watch included.
C4_DenylistPrecedence ==
    (op.kind # "idle" /\ ContainsDenied(op.command) /\ ContainsReview(op.command))
    => /\ \A m \in ToolModes : evaluate(op.command, m, roots) = "DENY"
       /\ (Decided => op.decision = "DENY" /\ op.decision # "ELICIT")

C4_Witness ==
    /\ op.kind = "tool" /\ op.mode = "watch" /\ op.decision = "DENY"
    /\ ContainsDenied(op.command) /\ ContainsReview(op.command)

\* C5: ELICIT is answered only when the mode is exactly "watch"; in any other mode
\* the answer is EXECUTE or DENY, and EXECUTE when no denylisted substring occurs.
C5_OnlyWatchElicits ==
    /\ (Decided /\ op.decision = "ELICIT") => ToolPolicyMode(op.mode) = "watch"
    /\ (Decided /\ ToolPolicyMode(op.mode) # "watch")
         => op.decision = (IF ContainsDenied(op.command) THEN "DENY" ELSE "EXECUTE")
    /\ op.kind # "idle" =>
         \A m \in ToolModes \ {"watch"} :
            evaluate(op.command, m, roots) \in {"EXECUTE", "DENY"}

C5_Witness ==
    /\ op.kind = "tool" /\ op.mode \in {"dialog", "WATCH"} /\ op.decision = "EXECUTE"
    /\ ContainsReview(op.command)

\* the result of the tool call in flight
ToolResult == op.result[1]

\* the decision PolicyEngine.evaluate gives for the call in flight
PolicyOfCall == evaluate(op.command, ToolPolicyMode(op.mode), roots)

\* C31 (as claimed): a shell/execute call with dry_run true spawns no process, and
\* its status is the policy decision: EXECUTE with exit code 0 when the policy
\* approves, in any mode, and the DENY or ELICIT decision with exit code 1
\* otherwise.
C31_DryRunStatusIsPolicy ==
    (op.kind = "tool" /\ op.dry_run)
    => /\ op.spawns = 0
       /\ ToolResult.status = PolicyOfCall
       /\ ToolResult.exit_code = (IF PolicyOfCall = "EXECUTE" THEN 0 ELSE 1)

\* C31 (amended): a dry run spawns no process; for a command that is not blank
\* its status is the policy decision, with exit code 0 for EXECUTE and 1 for DENY
\* or ELICIT; for a blank command the policy is not evaluated and the result is
\* DENY with exit code 1, although the policy engine would answer EXECUTE.
C31_DryRunOnlyEvaluates ==
    (op.kind = "tool" /\ op.dry_run)
    => /\ op.spawns = 0
       /\ ToolResult.stdout \in {None, Some("Policy approved")}
       /\ IF Strip(op.command) = ""
          THEN /\ ~op.consulted
               /\ ToolResult.status = "DENY" /\ ToolResult.exit_code = 1
               /\ PolicyOfCall = "EXECUTE"
          ELSE /\ op.consulted /\ op.decision = PolicyOfCall
               /\ ToolResult.status = PolicyOfCall
               /\ ToolResult.exit_code = (IF PolicyOfCall = "EXECUTE" THEN 0 ELSE 1)

C31_Witness ==
    /\ op.kind = "tool" /\ op.dry_run /\ op.mode = "dialog"
    /\ ContainsReview(op.command)
    /\ ToolResult.status = "EXECUTE" /\ ToolResult.exit_code = 0

\* C32: in watch mode `acp run` calls CommandExecutor.run exactly when the
\* server's dry-run decision is EXECUTE or the policy call raised; when the server
\* answers DENY or ELICIT the command is not run, no log entry is built and none
\* is submitted.
C32_WatchRunsOnlyIfAllowed ==
    [][(op.kind = "idle" /\ op'.kind = "cli" /\ op'.mode = "watch" /\ ~op'.raised)
       => /\ op'.localRuns \in {0, 1}
          /\ (op'.localRuns = 1) <=> (~op'.consulted \/ op'.decision = "EXECUTE")
          /\ op'.consulted => op'.decision = evaluate(op'.command, "watch", roots')
          /\ (op'.consulted /\ op'.decision \in {"DENY", "ELICIT"})
                => /\ op'.blocked
                   /\ op'.localRuns = 0 /\ op'.spawns = 0
                   /\ op'.entry = None
                   /\ logs' = logs]_vars

C32_Witness ==
    /\ op.kind = "cli" /\ op.mode = "watch" /\ op.blocked
    /\ op.decision = "ELICIT" /\ op.localRuns = 0 /\ op.entry = None /\ logs = 0

\* C39 (as claimed): one `acp run` executes the command at most once, counting
\* the local executor and the server's shell/execute tool together, in every
\* mode.
C39_ExecutedAtMostOnce ==
    op.kind = "cli" => op.localRuns + op.spawns <= 1

(***************************************************************************)
(* Properties of the one-shot executors                                    *)
(***************************************************************************)

\* C6 (as claimed): when the deadline passes while the spawned command is still
\* running, the result has exit code 124 (status TIMEOUT from the tool) and, when
\* it is returned, neither the command nor any process it started is running.
C6_TimeoutLeavesNothingRunning ==
    (ex.pc = "returned" /\ ex.timed_out /\ ex.child = "killed")
    => /\ ex.result[1].exit_code = 124
       /\ (ex.path = "tool" => ex.result[1].status = "TIMEOUT")
       /\ ex.holders = 0 /\ ex.detached = 0

C8_StreamsStrippedOrAbsent ==
    (ex.pc = "returned" /\ ~ex.timed_out /\ ~ex.notfound)
    => /\ ex.result[1].exit_code = ex.returncode
       /\ ex.result[1].stdout = OrNone(Strip(DecodeIgnore(ex.out)))
       /\ ex.result[1].stderr = OrNone(Strip(DecodeIgnore(ex.err)))

\* the executor's own next step once the deadline has passed: the timeout
\* handling of either path, or the return of the tool's second communicate()
AfterDeadlineStep ==
    \/ CliRunTimeout
    \/ \E lost \in BOOLEAN : ToolTimeout(lost)
    \/ ToolDrained

\* C36 (as claimed): once the deadline has passed the executor gets to its
\* timeout result by steps of its own: neither before nor after the forcible
\* termination does it wait for processes the child started or for the pipes
\* they hold.
C36_ReturnsAfterDeadline ==
    (ex.expired /\ ex.pc \in {"waiting", "draining"}) => ENABLED AfterDeadlineStep

(***************************************************************************)
(* Properties of the IPC framing                                           *)
(***************************************************************************)

\* the 4 bytes of n, most significant first
BigEndian4(n) ==
    <<(n \div (256 * 256 * 256)) % 256, (n \div (256 * 256)) % 256, (n \div 256) % 256, n % 256>>

\* the payload of each message: its JSON text, one byte per character
Payloads == [m \in Messages |-> Utf8Encode(Dumps(m))]

PayloadOf(message) == Payloads[message]

\* the frames of msgs[from], msgs[from + 1], ... one after the other
RECURSIVE FramesFrom(_, _)
FramesFrom(msgs, from) ==
    IF from > Len(msgs) THEN <<>>
    ELSE BigEndian4(Len(PayloadOf(msgs[from]))) \o PayloadOf(msgs[from])
         \o FramesFrom(msgs, from + 1)

\* the bytes written and not yet read by receive_message
Unread == rbuf \o wire

\* C9: what send_message writes is, per message, a 4-byte big-endian length and
\* exactly that many payload bytes, and receive_message reads exactly 4 bytes and
\* then exactly the declared number: between two receives the unread stream starts
\* at a frame, and inside one it starts at that frame's payload.
C9_FramingIntact ==
    /\ rpc # "failed"
    /\ rpc = "header" => Unread = FramesFrom(sent, Len(received) + 1)
    /\ rpc = "body" =>
         /\ Len(received) < Len(sent)
         /\ rlen = Len(PayloadOf(sent[Len(received) + 1]))
         /\ Unread = PayloadOf(sent[Len(received) + 1]) \o FramesFrom(sent, Len(received) + 2)

C9_Witness ==
    /\ Len(received) = 2 /\ rpc = "header" /\ Unread = <<>>
    /\ sent[1] = MsgLong /\ sent[2] = MsgResize

\* C10 (as claimed): every message comes out of receive_message exactly as it
\* went into send_message.
C10_RoundTripExact ==
    \A k \in 1..Len(received) : received[k] = sent[k]

\* built from JSON's own types only: str, int, bool, None, list, and dict with str keys
RECURSIVE IsJsonNative(_)
IsJsonNative(v) ==
    IF v.t \in {"str", "int", "bool", "none"} THEN TRUE
    ELSE IF v.t = "list" THEN \A i \in 1..Len(v.items) : IsJsonNative(v.items[i])
    ELSE IF v.t = "dict"
    THEN \A i \in 1..Len(v.items) :
            v.items[i].items[1].t = "str" /\ IsJsonNative(v.items[i].items[2])
    ELSE FALSE

\* C10 (amended): a message built only from str, int, bool, None, lists and
\* mappings with string keys comes out of receive_message exactly as it went into
\* send_message; no message that send_message accepted makes receive_message fail.
C10_RoundTripJsonNative ==
    /\ rpc # "failed"
    /\ Len(received) <= Len(sent)
    /\ \A k \in 1..Len(received) : IsJsonNative(sent[k]) => received[k] = sent[k]

C10_Witness ==
    /\ Len(received) = 2
    /\ received[1] = MsgMixed /\ received[2] = MsgResize


(***************************************************************************)
(* Properties of the IPC server and client                                 *)
(***************************************************************************)

\* the bytes of buf stop short of a whole frame: fewer than 4, or fewer after the
\* first 4 than the length these declare
IncompleteFrame(buf) ==
    \/ Len(buf) < 4
    \/ Len(buf) - 4 < buf[1] * 16777216 + buf[2] * 65536 + buf[3] * 256 + buf[4]

\* C11: when the peer has closed and what it wrote stops short of a whole frame
\* (nothing, part of the length, or part of the payload), receive_message returns
\* None instead of raising, and the read loop that got None has ended and closed
\* its side without an error.
C11_ShortReadIsClosedConnection ==
    \A c \in Conns :
       /\ (conns[c].up = "open" /\ conns[c].cpc = "closed" /\ IncompleteFrame(conns[c].c2s))
            => receive_message(conns[c].c2s, TRUE).kind = "none"
       /\ conns[c].lastread = "eof"
            => (conns[c].spc = "closed" /\ ~conns[c].failed /\ conns[c].cpc = "closed")

C11_Witness ==
    \E c \in Conns :
       /\ conns[c].lastread = "eof" /\ conns[c].short = Len(RawShortBody)
       /\ conns[c].spc = "closed" /\ ~conns[c].failed

\* C12: a request for which the handler raises is answered with {error: <text>,
\* status: "error"}, and the connection stays open: the loop goes back to
\* reading, and it ends right after a request only if the peer is gone.
C12_HandlerErrorAnswered ==
    \A c \in Conns :
       /\ \A j \in 1..Len(conns[c].responses) :
             Handler(conns[c].handled[j]).raised
             => conns[c].responses[j] =
                  PyDict(<<PyPair(PyStr("error"), PyStr(Handler(conns[c].handled[j]).text)),
                           PyPair(PyStr("status"), PyStr("error"))>>)
       /\ conns[c].spc = "reading" => Len(conns[c].responses) = Len(conns[c].handled)
       /\ (conns[c].spc = "closed" /\ conns[c].lastread = "request")
            => conns[c].cpc = "closed"

C12_Witness ==
    \E c \in Conns :
       /\ Len(conns[c].responses) = 2 /\ Handler(conns[c].handled[1]).raised
       /\ conns[c].spc = "reading" /\ conns[c].cpc # "closed"

ClosedForCause ==
    \A c \in Conns :
       (conns[c].spc = "closed" /\ conns[c].lastread # "exit")
       => (conns[c].cpc = "closed" \/ conns[c].failed \/ conns[c].lastread = "null")

\* a step in which the running server closes one connection changes no other
\* connection and leaves the listening server as it was
ClosesOnlyThatConnection ==
    \A c \in Conns :
       (conns[c].spc # "closed" /\ conns'[c].spc = "closed" /\ conns'[c].lastread # "exit")
       => (srv' = srv /\ \A d \in Conns \ {c} : conns'[d] = conns[d])

ExpectedResponse(request) ==
    IF Handler(request).raised
    THEN PyDict(<<PyPair(PyStr("error"), PyStr(Handler(request).text)),
                  PyPair(PyStr("status"), PyStr("error"))>>)
    ELSE Handler(request).value

\* the frames of responses[from], responses[from + 1], ... one after the other
RECURSIVE ResponseFrames(_, _)
ResponseFrames(responses, from) ==
    IF from > Len(responses) THEN <<>>
    ELSE BigEndian4(Len(WireData[responses[from]])) \o WireData[responses[from]]
         \o ResponseFrames(responses, from + 1)

\* the calls of a client that got a response back
NumReturned(k) == Cardinality({j \in 1..Len(k.returns) : ~k.returns[j].raised})

\* C14: on one connection the requests go to the handler in arrival order, one at
\* a time, and each gets exactly one response frame, written before the next
\* request is handled: the j-th response is the handler's answer to the j-th
\* request, and the stream to the peer holds the unread responses in order.
C14_InOrderOneResponseEach ==
    \A c \in Conns :
       LET k == conns[c] IN
       /\ Len(k.responses) <= Len(k.handled)
       /\ Len(k.handled) <= Len(k.responses) + 1
       /\ k.spc = "handling" => Len(k.handled) = Len(k.responses) + 1
       /\ k.spc = "reading" => Len(k.handled) = Len(k.responses)
       /\ \A j \in 1..Len(k.responses) : k.responses[j] = ExpectedResponse(k.handled[j])
       /\ k.peer = "client" =>
             /\ Len(k.handled) <= Len(k.calls)
             /\ \A j \in 1..Len(k.handled) : k.handled[j] = k.calls[j]
       /\ k.cpc # "closed" =>
             k.s2c = ResponseFrames(k.responses,
                                    (IF k.peer = "client" THEN NumReturned(k) ELSE 0) + 1)

C14_Witness ==
    \E c \in Conns :
       /\ conns[c].peer = "client" /\ Len(conns[c].responses) = 2
       /\ conns[c].responses[1] # conns[c].responses[2]
       /\ conns[c].spc = "reading" /\ conns[c].s2c = <<>>

\* C15: a call of send_request returns the next frame read after its request was
\* written, whatever ids the two carry: the j-th of a client's serial calls
\* returns the server's j-th response, and a call raises only once the server's
\* side is closed.
C15_ResponsesMatchedByOrder ==
    \A c \in Conns :
       LET k == conns[c] IN
       k.peer = "client" =>
          /\ Len(k.returns) <= Len(k.calls)
          /\ Len(k.calls) <= Len(k.returns) + 1
          /\ k.cpc = "awaiting" <=> Len(k.calls) = Len(k.returns) + 1
          /\ \A j \in 1..Len(k.returns) :
                IF k.returns[j].raised THEN k.spc = "closed"
                ELSE /\ j <= Len(k.responses)
                     /\ k.returns[j].value = k.responses[j]

C15_Witness ==
    \E c \in Conns :
       /\ Len(conns[c].returns) = 2
       /\ ~conns[c].returns[1].raised /\ ~conns[c].returns[2].raised
       /\ conns[c].returns[1].value # conns[c].returns[2].value
       /\ DictHas(conns[c].calls[2], PyStr("id"))
       /\ ~DictHas(conns[c].returns[2].value, PyStr("id"))

\* the kind of error raised for serialization, broken-pipe and decode failures
TransportErrorType == "IPCError"

\* C16 (as claimed): a call of send_request that found the connection closed while
\* it awaited the response ends in something other than the transport error.
C16_ClosedIsDistinctKind ==
    \A c \in Conns :
       \A j \in 1..Len(conns[c].returns) :
          (conns[c].returns[j].raised
           /\ conns[c].returns[j].text = "Connection closed by server")
          => conns[c].returns[j].type # TransportErrorType

\* C17: a start finds the path free or frees it, binds, and leaves the socket
\* file of the listening server at the path; a stop of a started server leaves
\* no file there and the server not listening; a start after a stop does the same.
C17_StartBindsStopRemoves ==
    /\ srv.last = "start" =>
          /\ ~srv.raised
          /\ srv.s.file = "bound" /\ srv.s.owner = srv.s.server
          /\ srv.s.server \in srv.s.live
    /\ (srv.last = "stop" /\ srv.s.server # 0) =>
          /\ ~srv.raised
          /\ srv.s.file = "absent"
          /\ srv.s.server \notin srv.s.live

C17_Witness ==
    /\ srv.last = "start" /\ srv.unlinked /\ ~srv.raised
    /\ srv.s.binds = 2 /\ srv.s.live = {2} /\ srv.s.file = "bound"

(***************************************************************************)
(* Properties of the shell agent                                           *)
(***************************************************************************)

\* C18 (as claimed): a stop of an agent that is already stopped, was never started
\* or whose start failed does not raise; on a stopped or never started agent it
\* does nothing: no signal is sent, no descriptor closed, no file removed.
C18_StopIsIdempotent ==
    (sys.last = "stop" /\ sys.before \in {"new", "stopped", "partial"})
    => /\ ~sys.raised
       /\ sys.before \in {"new", "stopped"}
            => (sys.stray_signals = 0 /\ sys.stray_closes = 0 /\ ~sys.unlinked)

\* C19 (as claimed): once stop has been called the agent is never running again
\* and no shell is alive.
C19_StoppedIsTerminal ==
    sys.ever_stopped => (~agent.running /\ sys.children = {})

\* C20 (as claimed): a running agent has exactly one child shell alive and one
\* master descriptor open, the ones it tracks; an agent that is not running has
\* none.
C20_OneSessionPerRunningAgent ==
    IF agent.running
    THEN sys.children = {agent.pid} /\ sys.fds = {agent.master_fd}
    ELSE sys.children = {} /\ sys.fds = {}

\* the place of a step in the order of stop
StopPosition(step) == CHOOSE k \in 1..Len(StopOrder) : StopOrder[k] = step

\* the steps were taken in the order of StopOrder, none twice
InStopOrder(steps) ==
    \A i, j \in 1..Len(steps) : i < j => StopPosition(steps[i]) < StopPosition(steps[j])

StepsOf(steps) == {steps[i] : i \in 1..Len(steps)}

\* the last stop came back to its caller
StopReturned == sys.last = "stop" /\ ~sys.raised /\ ~sys.hung

\* C21: stop takes its steps in the order IPC server stopped, child signalled,
\* child reaped, master descriptor closed: the descriptor is closed only when the
\* agent's child has been reaped, a stop of a started agent that returns has
\* taken all four steps and removed the socket file, and after a stop that
\* returns the agent's child is neither alive nor a zombie.
C21_StopOrderAndReaped ==
    sys.last = "stop"
    => /\ InStopOrder(sys.steps)
       /\ "close" \in StepsOf(sys.steps) => agent.pid \notin sys.children
       /\ StopReturned => agent.pid \notin sys.children \cup sys.zombies
       /\ (StopReturned /\ sys.before = "started")
            => /\ sys.steps = StopOrder
               /\ ~PathExists(sys.sock)
               /\ sys.reaped = agent.pid
               /\ agent.master_fd \notin sys.fds

C21_Witness ==
    /\ StopReturned /\ sys.before = "started"
    /\ sys.steps = StopOrder /\ sys.reaped = agent.pid /\ sys.unlinked
    /\ sys.children = {} /\ sys.fds = {}

\* the command text of an execute_command request, "" when it has none
RequestCommand(request) ==
    LET command ==
          DictGet(DictGet(request, PyStr("payload"), PyDict(<<>>)), PyStr("command"), PyNone)
    IN IF DictGet(request, PyStr("type"), PyNone) = PyStr("execute_command")
          /\ command.t = "str"
       THEN command.s ELSE ""

IsResize(request) == DictGet(request, PyStr("type"), PyNone) = PyStr("resize")

ReplyStatus(reply) == DictGet(reply, PyStr("status"), PyNone)

\* C22 (as claimed): an execute_command request with a non-empty command is
\* answered {status: ok, message} only if the command text and one newline, all
\* of it, was written to the shell's terminal, and {status: error, error} with
\* nothing written otherwise.
C22_OkOnlyIfWholeWrite ==
    (sys.last = "request" /\ RequestCommand(sys.request) # "")
    => /\ sys.reply = CommandSent
            => (sys.wrote = Terminated(RequestCommand(sys.request)) /\ sys.stray_writes = 0)
       /\ sys.reply # CommandSent
            => /\ ReplyStatus(sys.reply) = PyStr("error")
               /\ DictHas(sys.reply, PyStr("error"))
               /\ sys.wrote = ""

\* the geometry a resize request asks for
RequestedGeometry(request) ==
    LET payload == DictGet(request, PyStr("payload"), PyDict(<<>>)) IN
    <<IntValue(DictGet(payload, PyStr("rows"), PyInt("24")).s),
      IntValue(DictGet(payload, PyStr("cols"), PyInt("80")).s)>>

\* C23 (as claimed): a resize request handled by a running agent whose terminal
\* is open is answered {status: ok}, and the terminal then has the geometry asked
\* for.
C23_OkMeansResized ==
    (/\ sys.last = "request" /\ IsResize(sys.request)
     /\ agent.running /\ agent.master_fd \in sys.fds)
    => /\ sys.reply = StatusOk
       /\ sys.geometry[agent.master_fd] = RequestedGeometry(sys.request)

\* C24 (as claimed): a resize request handled while the agent's master descriptor
\* is closed (never opened, or closed by stop) raises nothing, issues no ioctl
\* and changes nothing.
C24_ResizeOnClosedIsNoOp ==
    (sys.last = "request" /\ IsResize(sys.request) /\ agent.master_fd \notin sys.fds)
    => /\ ~sys.raised
       /\ sys.ioctls = 0 /\ sys.stray_ioctls = 0
       /\ sys.reply = StatusOk

\* C25: the drain task suspends in every iteration: between two steps of the
\* event loop it is suspended or finished, never on its way to another read; a
\* read that finds no data leaves the loop alive and asleep while the agent
\* runs; and while the agent runs and the task sleeps a request can be handled.
C25_DrainYieldsEveryIteration ==
    /\ drain.pc \in {"none", "scheduled", "sleeping", "done"}
    /\ (drain.last = "nodata" /\ DrainContinues(agent)) => drain.pc = "sleeping"
    /\ (agent.running /\ drain.pc = "sleeping" /\ ~sys.hung)
         => ENABLED HandleIpcRequest(Ping, "all", FALSE)

\* a read found no data, a request was handled, the next read found no data, and
\* the task is asleep again
C25_Witness ==
    /\ agent.running /\ drain.pc = "sleeping"
    /\ drain.prev = "nodata" /\ drain.between /\ drain.last = "nodata"

\* the agent has no shell session: it never had a terminal, or stop closed it
NoSession == agent.master_fd \notin sys.fds

RequestType(request) == DictGet(request, PyStr("type"), PyNone)

\* the requests the handler is to reject: an execute_command without a command
\* or with an empty one, an execute_command while there is no shell session, a
\* message of unknown type
Rejected(request) ==
    \/ /\ RequestType(request) = PyStr("execute_command")
       /\ (RequestCommand(request) = "" \/ NoSession)
    \/ RequestType(request) \notin {PyStr("execute_command"), PyStr("resize")}

\* the reply os.write on an invalid descriptor leads to
BadDescriptor == StatusError("[Errno 9] Bad file descriptor")

\* C33 (as claimed): the handler answers every request with a mapping, and a
\* rejected request with {status: error, error} without a write and without an
\* ioctl.
C33_RejectedTouchesNothing ==
    sys.last = "request"
    => /\ sys.reply.t = "dict" /\ ~sys.raised
       /\ Rejected(sys.request)
            => /\ ReplyStatus(sys.reply) = PyStr("error")
               /\ DictHas(sys.reply, PyStr("error"))
               /\ sys.wrote = "" /\ sys.stray_writes = 0
               /\ sys.ioctls = 0 /\ sys.stray_ioctls = 0
               /\ sys.reply # BadDescriptor

\* the drain task comes back from asyncio.sleep and calls os.read
DrainReadStep == drain.pc \in {"sleeping", "reading"} /\ drain'.pc # drain.pc

\* stop has closed the descriptor the agent still tracks
ClosedByStop == sys.ever_stopped /\ agent.master_fd # 0 /\ agent.master_fd \notin sys.fds

\* C34 (as claimed): once stop has closed the master descriptor nothing reads
\* from, writes to or issues an ioctl on that descriptor number: a request
\* handled afterwards issues no write and no ioctl, and the drain task does
\* not read.
C34_NothingTouchesClosedDescriptor ==
    /\ []((sys.last = "request" /\ ClosedByStop)
            => /\ sys.ioctls = 0 /\ sys.stray_ioctls = 0
               /\ sys.wrote = "" /\ sys.stray_writes = 0
               /\ sys.reply # BadDescriptor)
    /\ [][ClosedByStop => ~DrainReadStep]_vars

\* C35 (as claimed): stop comes back to its caller from every state, also when
\* the child shell does not exit on the termination signal.
C35_StopCompletes ==
    sys.last = "stop" => ~sys.hung

(***************************************************************************)
(* Properties of the process boundary                                      *)
(***************************************************************************)

\* C26: when main() of agent_runner or of main has treated an error as fatal and
\* the process has ended, the agent's stop had run, in order and to its end,
\* before: it returned, the child it tracked is reaped, its master descriptor is
\* closed and no IPC server is left at the socket path.
C26_StopRunsBeforeFatalExit ==
    (proc.pc = "exited" /\ proc.fatal)
    => /\ proc.cleanup /\ proc.code = 1
       /\ StopReturned /\ InStopOrder(sys.steps)
       /\ agent.pid \notin sys.children
       /\ agent.master_fd \notin sys.fds
       /\ sys.sock.live = {} /\ ~PathExists(sys.sock)
       /\ ~agent.running

\* server.run() raised in adminmcp.main with the agent started: the process ended
\* after all four steps of stop
C26_Witness ==
    /\ proc.pc = "exited" /\ proc.fatal /\ proc.entry = "main"
    /\ sys.steps = StopOrder /\ sys.reaped = agent.pid /\ sys.unlinked

(***************************************************************************)
(* Properties of the security validator                                    *)
(***************************************************************************)

\* every character of s from position a to position b is in set
AllIn(s, a, b, set) == \A k \in a..b : Char(s, k) \in set

\* the blocked set, read off the patterns: "rm", white space, a dash, a run of
\* the letters r and f, and a slash later on the same line
RecursiveDelete(s) ==
    \E i \in 1..Len(s), d \in 1..Len(s) :
       /\ StartsWith(s, i, "rm") /\ d > i + 2
       /\ AllIn(s, i + 2, d - 1, ReSpace) /\ Char(s, d) = "-"
       /\ \E e \in (d + 1)..Len(s) :
             /\ AllIn(s, d + 1, e, {"r", "f"})
             /\ \E m \in (e + 1)..Len(s) :
                   Char(s, m) = "/" /\ \A k \in (e + 1)..(m - 1) : Char(s, k) # "\n"

\* s without its white space
RECURSIVE Squeeze(_)
Squeeze(s) ==
    IF s = "" THEN ""
    ELSE (IF Char(s, 1) \in ReSpace THEN "" ELSE Char(s, 1)) \o Squeeze(SubSeq(s, 2, Len(s)))

\* the fork-bomb idiom, white space allowed between its tokens
ForkBomb(s) ==
    \E i \in 1..Len(s), j \in 1..Len(s) :
       LET part == SubSeq(s, i, j) IN
       /\ i <= j
       /\ StartsWith(part, 1, ":()") /\ Char(part, Len(part)) = ":"
       /\ Contains(part, "};")
       /\ Squeeze(part) = ":(){:|:&};:"

\* "dd", white space, "if="
DeviceCopy(s) ==
    \E i \in 1..Len(s), j \in 1..Len(s) :
       /\ StartsWith(s, i, "dd") /\ j > i + 2
       /\ AllIn(s, i + 2, j - 1, ReSpace) /\ StartsWith(s, j, "if=")

\* a redirection to /dev/sd and a lower-case letter
RawDeviceWrite(s) ==
    \E i \in 1..Len(s), j \in 1..Len(s) :
       /\ Char(s, i) = ">" /\ j > i
       /\ AllIn(s, i + 1, j - 1, ReSpace)
       /\ StartsWith(s, j, "/dev/sd") /\ j + 7 <= Len(s)
       /\ \E k \in 1..Len(LowerLetters) : Char(LowerLetters, k) = Char(s, j + 7)

InBlockedSet(s) ==
    \/ RecursiveDelete(s) \/ ForkBomb(s) \/ Contains(s, "mkfs")
    \/ DeviceCopy(s) \/ RawDeviceWrite(s)

\* C27: a validator in "autonomous" posture answers true for every command, the
\* ones in the blocked set included.
C27_AutonomousAllowsAll ==
    (sec.called /\ sec.mode = "autonomous")
    => /\ sec.valid
       /\ \A command \in Commands : validate_command("autonomous", command)

C27_Witness ==
    /\ sec.called /\ sec.mode = "autonomous" /\ sec.command = "rm -rf /"
    /\ InBlockedSet(sec.command) /\ sec.valid

\* C28: a validator in "restricted" posture answers false exactly for the
\* commands in the blocked set; it rejects "rm -rf /", "rm -r /etc",
\* "mkfs.ext4 /dev/sda" and ":(){ :|:& };:" and accepts "ls -la" and
\* "echo hello".
C28_RestrictedBlocksExactlyTheSet ==
    (sec.called /\ sec.mode = "restricted")
    => /\ sec.valid = ~InBlockedSet(sec.command)
       /\ sec.command \in {"rm -rf /", "rm -r /etc", "mkfs.ext4 /dev/sda", ":(){ :|:& };:"}
            => ~sec.valid
       /\ sec.command \in {"ls -la", "echo hello"} => sec.valid

C28_Witness ==
    /\ sec.called /\ sec.mode = "restricted" /\ sec.command = "sudo rm -rf /tmp/x"
    /\ ~sec.valid

(***************************************************************************)
(* Properties of the execute_command tool                                  *)
(***************************************************************************)

\* C29: an execute_command call whose command the server's validator rejects
\* sends nothing over IPC and writes nothing to the terminal, whatever its mode
\* argument; it returns the blocked text and leaves the client's connection as
\* it was.
C29_RejectedNeverSent ==
    (/\ tool.called /\ tool.name = "execute_command" /\ tool.command # ""
     /\ ~validate_command(DefaultValidatorMode, tool.command))
    => /\ tool.blocked /\ ~tool.raised /\ tool.response = PyNone
       /\ tool.sent = 0 /\ tool.wrote = ""
       /\ tool.writer = tool.was_connected

C29_Witness ==
    /\ tool.called /\ tool.blocked /\ tool.command = "rm -rf /"
    /\ tool.mode = "autonomous" /\ tool.was_connected /\ tool.writer
    /\ agent.running /\ tool.sent = 0

\* C30 (as claimed): a command given with mode "tutor" reaches the shell only
\* after the operator has confirmed it.
C30_TutorNeedsConfirmation ==
    (tool.called /\ tool.mode = "tutor" /\ tool.wrote # "")
    => tool.confirmations > 0

(***************************************************************************)
(* Properties of the server's IPC client                                   *)
(***************************************************************************)

\* C37 (as claimed): an execute_command call made while the agent is reachable
\* succeeds, whether the client had a connection, had none, or had lost the one
\* it had; without a usable connection the call establishes a new one.
C37_ReconnectsOnDemand ==
    (mcp.last.made /\ mcp.last.reachable)
    => /\ ReplyStatus(mcp.last.response) = PyStr("ok")
       /\ (~mcp.last.had_writer \/ mcp.last.lost) => mcp.last.connected

\* C38 (as claimed): when send_request calls of two tasks overlap on one
\* client, no call fails, and each call that returns has the response to its
\* own request.
C38_OverlapKeepsPairs ==
    \A t \in Tasks :
       /\ pair.tasks[t].pc # "raised"
       /\ pair.tasks[t].pc = "returned"
            => pair.tasks[t].result.answers = pair.tasks[t].request

(***************************************************************************)
(* Properties of the PID file                                              *)
(***************************************************************************)

\* no start_server or stop_server call is under way
NoCliCall == \A c \in Clis : pidf.clis[c].pc = "idle"

\* C40 (as claimed): under any interleaving of start_server and stop_server
\* calls of concurrent CLI processes at most one launched server process is
\* alive, and once the calls are over the PID file, when there is one, names
\* the server that is alive.
C40_AtMostOneServer ==
    /\ Cardinality(pidf.alive) <= 1
    /\ (NoCliCall /\ pidf.file # NoPidFile /\ pidf.alive # {})
         => pidf.alive = {pidf.file}

=============================================================================
